---- MODULE Spec2Model ----
(***************************************************************************)
(* A model of the SCORM run-time of scorm-content-navigator:               *)
(*   - LocalSCORMDataStore, the session data store (lib/scorm-api), and    *)
(*     createSCORMAPI, the SCORM 1.2 (API) and SCORM 2004 (API_1484_11)    *)
(*     call sets that delegate to one store (specification Spec);          *)
(*   - SCORMManifestParser.resolveItemResources and getPlayableItems, as   *)
(*     the player's loadManifest applies them (specification ManifestSpec);*)
(*   - SCORMPackageManager, the package store over IndexedDB with its      *)
(*     localStorage fallback, its calls interleaved at their awaits        *)
(*     (specification PackageSpec);                                        *)
(*   - the two findAPI functions of SCORMPlayer, applied to chains of      *)
(*     windows (specification DiscoverySpec);                              *)
(*   - SCORMPlayer's loadSCO, injectSCORMAPI and createDebugAPI, with the  *)
(*     content calling the API objects of its window (specification        *)
(*     PlayerSpec).                                                        *)
(*                                                                         *)
(* A JavaScript string is modelled as the sequence of its code units, each *)
(* unit a one-character TLA+ string, so that length checks, the regular    *)
(* expressions and trim/substring are computed on the characters.          *)
(* Identifiers and hrefs of a manifest are only compared for equality and  *)
(* are modelled as atoms; Spelling gives the characters of those the       *)
(* player takes apart.                                                     *)
(***************************************************************************)
EXTENDS Integers, Sequences, FiniteSets, TLC

VARIABLES
    data,           \* LocalSCORMDataStore.data: element name -> value
    initialized,    \* LocalSCORMDataStore.initialized
    errorCode,      \* LocalSCORMDataStore.errorCode
    last,           \* history: the call that produced this state, with the
                    \* store it was made on, its arguments and its return
    everTerminated, \* history: some terminate() succeeded on this instance
    ncalls,         \* history: number of calls made on this instance
    manifest,       \* loadManifest: the manifest as parsed
    resolvedManifest, \* loadManifest: resolveItemResources(manifest)
    playableItems,  \* loadManifest: getPlayableItems(...)
    mlast,          \* history: the manifest operation that produced this
                    \* state and the manifest it was given
    idb,            \* IndexedDB SCORMPackages: the committed content
    work,           \* IndexedDB: the content the running transaction sees
    queue,          \* IndexedDB: the unfinished read-write transactions
    localStorage,   \* localStorage[STORAGE_KEY]: the list of packages
    tasks,          \* the package manager's calls in progress
    plast,          \* history: the package manager call that returned last
    passed,         \* history: the packages given to storePackage
    clock,          \* Date.now(), as far as the package ids need it
    history,        \* history: the ids deleted and not stored since, and
                    \* the ids whose store fell back to localStorage
    nops,           \* history: number of package manager calls made
    contexts,       \* the chain of windows, the content's own window first
    player          \* SCORMPlayer: state.currentItemIndex, what loadSCO
                    \* requested and loaded, and the last operation

storeVars == <<data, initialized, errorCode, last, everTerminated, ncalls>>

manifestVars == <<manifest, resolvedManifest, playableItems, mlast>>

packageVars ==
    <<idb, work, queue, localStorage, tasks, plast, passed, clock, history,
      nops>>

playerVars == <<contexts, player>>

vars == <<storeVars, manifestVars, packageVars, playerVars>>

(***************************************************************************)
(* Bounds of the model.                                                    *)
(***************************************************************************)
\* Calls made on one store instance in one behaviour.
MaxCalls == 3

\* Organizations and items, taken together, of a generated manifest.
MaxNodes == 3

\* Calls made on the package manager in one behaviour.
MaxOps == 2

\* Calls of loadSCO made in one behaviour.
MaxLoads == 2

(***************************************************************************)
(* Characters.                                                             *)
(***************************************************************************)
UpperCase == <<"A","B","C","D","E","F","G","H","I","J","K","L","M",
               "N","O","P","Q","R","S","T","U","V","W","X","Y","Z">>
LowerCase == <<"a","b","c","d","e","f","g","h","i","j","k","l","m",
               "n","o","p","q","r","s","t","u","v","w","x","y","z">>

Range(f) == { f[i] : i \in DOMAIN f }

\* The i flag of a regular expression: letters compare by their lower case.
ToLower(c) ==
    IF \E i \in DOMAIN UpperCase : UpperCase[i] = c
    THEN LowerCase[CHOOSE i \in DOMAIN UpperCase : UpperCase[i] = c]
    ELSE c

\* \d
IsDigit(c) == c \in {"0","1","2","3","4","5","6","7","8","9"}

\* \w
IsWord(c) == c \in Range(UpperCase) \/ c \in Range(LowerCase) \/ IsDigit(c) \/ c = "_"

\* \s, and the white space String.prototype.trim removes
IsSpace(c) == c \in {" ", "\t", "\n", "\r"}

\* Whether the literal pat (lower case) occurs in s at index i, letters
\* compared without case.
MatchesAt(s, i, pat) ==
    /\ i >= 1
    /\ i + Len(pat) - 1 <= Len(s)
    /\ \A k \in 1..Len(pat) : ToLower(s[i + k - 1]) = pat[k]

\* The first index from `from` on that is in the set S of indices of a string
\* of n units, or n + 1 when there is none.
FirstIndex(S, from, n) ==
    CHOOSE j \in from..(n + 1) :
        /\ (j = n + 1 \/ j \in S)
        /\ \A k \in from..(j - 1) : k \notin S

\* Array.prototype.includes on a list of strings.
Includes(list, value) == \E i \in DOMAIN list : list[i] = value

(***************************************************************************)
(* validateSCORMElement.                                                   *)
(***************************************************************************)
\* The global length cap on a value, in code units.
MAX_VALUE_LENGTH == 4096

\* The length cap of a score value.
MAX_SCORE_LENGTH == 10

LESSON_STATUS_VOCABULARY ==
    << <<"p","a","s","s","e","d">>,
       <<"c","o","m","p","l","e","t","e","d">>,
       <<"f","a","i","l","e","d">>,
       <<"i","n","c","o","m","p","l","e","t","e">>,
       <<"b","r","o","w","s","e","d">>,
       <<"n","o","t"," ","a","t","t","e","m","p","t","e","d">> >>

EXIT_VOCABULARY ==
    << <<"t","i","m","e","-","o","u","t">>,
       <<"s","u","s","p","e","n","d">>,
       <<"l","o","g","o","u","t">>,
       <<"n","o","r","m","a","l">>,
       <<>> >>

\* The end of the run of digits that starts at i: the first index from i on
\* that holds no digit.
DigitsEnd(s, i) == FirstIndex({j \in 1..Len(s) : ~IsDigit(s[j])}, i, Len(s))

\* /^-?\d*\.?\d*$/
MatchesScorePattern(s) ==
    LET a == IF Len(s) >= 1 /\ s[1] = "-" THEN 2 ELSE 1
        b == DigitsEnd(s, a)
        c == IF b <= Len(s) /\ s[b] = "." THEN b + 1 ELSE b
        d == DigitsEnd(s, c)
    IN  d = Len(s) + 1

\* The time pattern tightened to a range check: minutes and seconds below 60.
MatchesTimePatternWithRanges(s) ==
    LET h == DigitsEnd(s, 1) - 1
        n == Len(s)
    IN  /\ h \in 2..4
        /\ n >= h + 6
        /\ s[h + 1] = ":"
        /\ s[h + 2] \in {"0", "1", "2", "3", "4", "5"} /\ IsDigit(s[h + 3])
        /\ s[h + 4] = ":"
        /\ s[h + 5] \in {"0", "1", "2", "3", "4", "5"} /\ IsDigit(s[h + 6])
        /\ \/ n = h + 6
           \/ /\ n \in {h + 8, h + 9}
              /\ s[h + 7] = "."
              /\ \A k \in (h + 8)..n : IsDigit(s[k])

\* /^\d{2,4}:\d{2}:\d{2}(\.\d{1,2})?$/
MatchesTimePattern(s) ==
    LET h == DigitsEnd(s, 1) - 1
        n == Len(s)
    IN  /\ h \in 2..4
        /\ n >= h + 6
        /\ s[h + 1] = ":"
        /\ IsDigit(s[h + 2]) /\ IsDigit(s[h + 3])
        /\ s[h + 4] = ":"
        /\ IsDigit(s[h + 5]) /\ IsDigit(s[h + 6])
        /\ \/ n = h + 6
           \/ /\ n \in {h + 8, h + 9}
              /\ s[h + 7] = "."
              /\ \A k \in (h + 8)..n : IsDigit(s[k])

\* validateSCORMElement with the global length check left out.
validateWithoutLengthCap(element, value) ==
    CASE element = "cmi.core.lesson_status" ->
            Includes(LESSON_STATUS_VOCABULARY, value)
      [] element = "cmi.core.exit" ->
            Includes(EXIT_VOCABULARY, value)
      [] element \in {"cmi.core.score.raw", "cmi.core.score.max",
                      "cmi.core.score.min"} ->
            MatchesScorePattern(value) /\ Len(value) <= MAX_SCORE_LENGTH
      [] element \in {"cmi.core.session_time", "cmi.core.total_time"} ->
            MatchesTimePattern(value)
      [] OTHER -> TRUE

validateSCORMElement(element, value) ==
    IF Len(value) > MAX_VALUE_LENGTH THEN FALSE
    ELSE CASE element = "cmi.core.lesson_status" ->
                Includes(LESSON_STATUS_VOCABULARY, value)
           [] element = "cmi.core.exit" ->
                Includes(EXIT_VOCABULARY, value)
           [] element \in {"cmi.core.score.raw", "cmi.core.score.max",
                           "cmi.core.score.min"} ->
                MatchesScorePattern(value) /\ Len(value) <= MAX_SCORE_LENGTH
           [] element \in {"cmi.core.session_time", "cmi.core.total_time"} ->
                MatchesTimePattern(value)
           [] OTHER -> TRUE

(***************************************************************************)
(* sanitizeValue.                                                          *)
(***************************************************************************)
SCRIPT_OPEN  == <<"<","s","c","r","i","p","t">>
SCRIPT_CLOSE == <<"<","/","s","c","r","i","p","t",">">>
JAVASCRIPT   == <<"j","a","v","a","s","c","r","i","p","t",":">>
ON           == <<"o","n">>

\* /<script\b[^<]*(?:(?!<\/script>)<[^<]*)*<\/script>/i tried at index i: the
\* index of the last unit of the match, or 0 when it does not match there.
\* After "<script" and a word boundary the pattern runs over everything up
\* to the first "</script>" and ends with it.
ScriptBlockEnd(s, i) ==
    IF /\ MatchesAt(s, i, SCRIPT_OPEN)
       /\ i + Len(SCRIPT_OPEN) <= Len(s)
       /\ ~IsWord(s[i + Len(SCRIPT_OPEN)])
    THEN LET j == FirstIndex(
                      {k \in 1..Len(s) : MatchesAt(s, k, SCRIPT_CLOSE)},
                      i + Len(SCRIPT_OPEN), Len(s))
         IN  IF j > Len(s) THEN 0 ELSE j + Len(SCRIPT_CLOSE) - 1
    ELSE 0

\* /javascript:/i tried at index i.
JavascriptEnd(s, i) ==
    IF MatchesAt(s, i, JAVASCRIPT) THEN i + Len(JAVASCRIPT) - 1 ELSE 0

\* /on\w+\s*=/i tried at index i: "on", the whole run of word characters
\* after it (at least one), the whole run of white space, then "=".
HandlerEnd(s, i) ==
    IF MatchesAt(s, i, ON)
    THEN LET w  == FirstIndex({k \in 1..Len(s) : ~IsWord(s[k])},
                              i + Len(ON), Len(s))
             sp == FirstIndex({k \in 1..Len(s) : ~IsSpace(s[k])}, w, Len(s))
         IN  IF w > i + Len(ON) /\ sp <= Len(s) /\ s[sp] = "=" THEN sp ELSE 0
    ELSE 0

\* String.prototype.replace(pattern /g, ""): the matches are taken leftmost
\* first, each search resuming after the previous match.
RECURSIVE RemoveScriptBlocks(_, _)
RemoveScriptBlocks(s, from) ==
    IF from > Len(s) THEN <<>>
    ELSE LET m == FirstIndex({i \in 1..Len(s) : ScriptBlockEnd(s, i) > 0},
                             from, Len(s))
         IN  IF m > Len(s) THEN SubSeq(s, from, Len(s))
             ELSE SubSeq(s, from, m - 1)
                      \o RemoveScriptBlocks(s, ScriptBlockEnd(s, m) + 1)

RECURSIVE RemoveJavascript(_, _)
RemoveJavascript(s, from) ==
    IF from > Len(s) THEN <<>>
    ELSE LET m == FirstIndex({i \in 1..Len(s) : JavascriptEnd(s, i) > 0},
                             from, Len(s))
         IN  IF m > Len(s) THEN SubSeq(s, from, Len(s))
             ELSE SubSeq(s, from, m - 1)
                      \o RemoveJavascript(s, JavascriptEnd(s, m) + 1)

RECURSIVE RemoveHandlers(_, _)
RemoveHandlers(s, from) ==
    IF from > Len(s) THEN <<>>
    ELSE LET m == FirstIndex({i \in 1..Len(s) : HandlerEnd(s, i) > 0},
                             from, Len(s))
         IN  IF m > Len(s) THEN SubSeq(s, from, Len(s))
             ELSE SubSeq(s, from, m - 1)
                      \o RemoveHandlers(s, HandlerEnd(s, m) + 1)

\* String.prototype.trim
Trim(s) ==
    LET first == FirstIndex({k \in 1..Len(s) : ~IsSpace(s[k])}, 1,
                            Len(s))
        lastNonSpace == CHOOSE j \in 0..Len(s) :
                    /\ (j = 0 \/ ~IsSpace(s[j]))
                    /\ \A k \in (j + 1)..Len(s) : IsSpace(s[k])
    IN  IF first > Len(s) THEN <<>> ELSE SubSeq(s, first, lastNonSpace)

\* String.prototype.substring(0, n)
Substring0(s, n) == IF Len(s) <= n THEN s ELSE SubSeq(s, 1, n)

sanitizeValue(value) ==
    Substring0(
        Trim(RemoveHandlers(
                 RemoveJavascript(RemoveScriptBlocks(value, 1), 1), 1)),
        MAX_VALUE_LENGTH)

(***************************************************************************)
(* The values of the calls.                                                *)
(***************************************************************************)
\* n code units of plain text.
Pad(n) == [i \in 1..n |-> "a"]

\* The userId the player passes ("demo_user", its default), and none.
UserIds == { <<>>, <<"d","e","m","o","_","u","s","e","r">> }

\* Free text: plain, with white space around it, script-bearing in each of
\* the three ways sanitizeValue looks for (once, and nested so that one
\* removal leaves another occurrence), at the length cap and one above it.
PlainText      == <<"p","a","g","e","_","3">>
SpacedText     == <<" ","h","i"," ">>
ScriptText     == <<"<","s","c","r","i","p","t",">","x","<","/","s","c","r",
                    "i","p","t",">","o","k">>
JavascriptText == <<"j","a","v","a","s","c","r","i","p","t",":","g","o">>
HandlerText    == <<" ","O","n","C","l","i","c","k"," ","="," ","g","o"," ">>
NestedScriptText ==
    <<"<","s","c","r","<","s","c","r","i","p","t",">","<","/","s","c","r",
      "i","p","t",">","i","p","t",">","x","<","/","s","c","r","i","p","t",">">>
NestedJavascriptText ==
    <<"j","a","v","a","j","a","v","a","s","c","r","i","p","t",":","s","c",
      "r","i","p","t",":","g","o">>
NestedHandlerText == <<"o","o","n","x","=","n","x","=","g","o">>
CapText        == Pad(MAX_VALUE_LENGTH)
OverCapText    == Pad(MAX_VALUE_LENGTH + 1)

TextValues ==
    { PlainText, SpacedText, ScriptText, JavascriptText, HandlerText,
      NestedScriptText, NestedJavascriptText, NestedHandlerText,
      CapText, OverCapText }

StatusValues ==
    { <<"p","a","s","s","e","d">>, <<"i","n","c","o","m","p","l","e","t","e">>,
      <<"P","a","s","s","e","d">>, <<"d","o","n","e">>, OverCapText }

ExitValues == { <<"s","u","s","p","e","n","d">>, <<>>, <<"q","u","i","t">> }

ScoreValues ==
    { <<"8","5">>, <<"-","1",".","5">>, <<"1",".","2",".","3">>,
      <<"1","2","3","4","5","6","7","8","9","0","1">>, PlainText }

TimeValues ==
    { <<"0","0",":","1","0",":","0","0">>,
      <<"2","5","0",":","6","1",":","0","0">>,
      <<"0",":","1","0",":","0","0">>, PlainText }

\* The spelling of the item identifiers and of the hrefs the player takes
\* apart: manifests hold them whole, setValue and the path variants of
\* loadSCO work on their characters.
Spelling ==
       ("content_item" :> <<"c","o","n","t","e","n","t","_","i","t","e","m">>)
    @@ ("content.html" :> <<"c","o","n","t","e","n","t",".","h","t","m","l">>)
    @@ ("lesson1" :> <<"l","e","s","s","o","n","1">>)
    @@ ("lesson2" :> <<"l","e","s","s","o","n","2">>)
    @@ ("quiz1" :> <<"q","u","i","z","1">>)

\* Every value a setValue call of the model is given.
InputValues ==
    TextValues \cup StatusValues \cup ExitValues \cup ScoreValues
        \cup TimeValues

\* this.sanitizeValue(value) for each value the calls are given: the
\* sanitized forms are computed once and looked up by setValue.
Sanitized ==
    [v \in InputValues \cup Range(Spelling) |-> sanitizeValue(v)]

(***************************************************************************)
(* LocalSCORMDataStore.  A store is the record of the instance's fields;   *)
(* a method is an operator from the store (and the arguments) to the store *)
(* it leaves and the value it returns.                                     *)
(***************************************************************************)
ERR_NO_ERROR            == <<"0">>
ERR_ALREADY_INITIALIZED == <<"1","0","1">>
ERR_NOT_INITIALIZED     == <<"1","1","2">>
ERR_READ_ONLY           == <<"4","0","3">>
ERR_NOT_FOUND           == <<"4","0","4">>
ERR_INVALID_DATA        == <<"4","0","5">>

DEFAULT_STUDENT_ID == <<"s","t","u","d","e","n","t","_","0","0","1">>

\* The data of a new instance; userId || "student_001".
DefaultData(userId) ==
       ("cmi.core.student_id" :>
            (IF userId = <<>> THEN DEFAULT_STUDENT_ID ELSE userId))
    @@ ("cmi.core.student_name" :> <<"S","t","u","d","e","n","t">>)
    @@ ("cmi.core.lesson_location" :> <<>>)
    @@ ("cmi.core.credit" :> <<"c","r","e","d","i","t">>)
    @@ ("cmi.core.lesson_status" :>
            <<"n","o","t"," ","a","t","t","e","m","p","t","e","d">>)
    @@ ("cmi.core.entry" :> <<"a","b","-","i","n","i","t","i","o">>)
    @@ ("cmi.core.lesson_mode" :> <<"n","o","r","m","a","l">>)
    @@ ("cmi.core.exit" :> <<>>)
    @@ ("cmi.core.session_time" :> <<"0","0",":","0","0",":","0","0">>)
    @@ ("cmi.core.total_time" :> <<"0","0",":","0","0",":","0","0">>)
    @@ ("cmi.core.score.raw" :> <<>>)
    @@ ("cmi.core.score.max" :> <<>>)
    @@ ("cmi.core.score.min" :> <<>>)
    @@ ("cmi.suspend_data" :> <<>>)
    @@ ("cmi.launch_data" :> <<>>)
    @@ ("cmi.comments" :> <<>>)
    @@ ("cmi.comments_from_lms" :> <<>>)

\* new LocalSCORMDataStore(userId, courseId)
NewStore(userId) ==
    [data |-> DefaultData(userId), initialized |-> FALSE,
     errorCode |-> ERR_NO_ERROR]

readOnlyElements ==
    {"cmi.core.student_id", "cmi.core.student_name", "cmi.core.credit",
     "cmi.core.entry", "cmi.core.lesson_mode", "cmi.core.total_time",
     "cmi.launch_data", "cmi.comments_from_lms"}

\* initialize that succeeds again on a store that is already initialized.
initializeAgain(st) ==
    [st |-> [st EXCEPT !.initialized = TRUE, !.errorCode = ERR_NO_ERROR],
     ret |-> TRUE]

initialize(st) ==
    IF st.initialized
    THEN [st |-> [st EXCEPT !.errorCode = ERR_ALREADY_INITIALIZED],
          ret |-> FALSE]
    ELSE [st |-> [st EXCEPT !.initialized = TRUE, !.errorCode = ERR_NO_ERROR],
          ret |-> TRUE]

terminate(st) ==
    IF ~st.initialized
    THEN [st |-> [st EXCEPT !.errorCode = ERR_NOT_INITIALIZED], ret |-> FALSE]
    ELSE [st |-> [st EXCEPT !.initialized = FALSE, !.errorCode = ERR_NO_ERROR],
          ret |-> TRUE]

\* this.data[element] || "": an element that was never set reads as "".
getValue(st, element) ==
    IF ~st.initialized
    THEN [st |-> [st EXCEPT !.errorCode = ERR_NOT_INITIALIZED], ret |-> <<>>]
    ELSE [st |-> [st EXCEPT !.errorCode = ERR_NO_ERROR],
          ret |-> IF element \in DOMAIN st.data THEN st.data[element]
                  ELSE <<>>]

\* this.data[element] = stored
Assign(d, element, stored) ==
    IF element \in DOMAIN d THEN [d EXCEPT ![element] = stored]
    ELSE d @@ (element :> stored)

\* setValue without the check of initialized.
setValueWithoutInitializedCheck(st, element, value) ==
    IF element \in readOnlyElements
    THEN [st |-> [st EXCEPT !.errorCode = ERR_READ_ONLY], ret |-> FALSE]
    ELSE IF ~validateSCORMElement(element, value)
    THEN [st |-> [st EXCEPT !.errorCode = ERR_INVALID_DATA], ret |-> FALSE]
    ELSE [st |-> [st EXCEPT !.data = Assign(@, element, Sanitized[value]),
                            !.errorCode = ERR_NO_ERROR],
          ret |-> TRUE]

\* setValue without the check of the read-only elements.
setValueWithoutReadOnlyCheck(st, element, value) ==
    IF ~st.initialized
    THEN [st |-> [st EXCEPT !.errorCode = ERR_NOT_INITIALIZED], ret |-> FALSE]
    ELSE IF ~validateSCORMElement(element, value)
    THEN [st |-> [st EXCEPT !.errorCode = ERR_INVALID_DATA], ret |-> FALSE]
    ELSE [st |-> [st EXCEPT !.data = Assign(@, element, Sanitized[value]),
                            !.errorCode = ERR_NO_ERROR],
          ret |-> TRUE]

\* setValue that reports a value that fails validation and stores it anyway.
setValueStoringInvalid(st, element, value) ==
    IF ~st.initialized
    THEN [st |-> [st EXCEPT !.errorCode = ERR_NOT_INITIALIZED], ret |-> FALSE]
    ELSE IF element \in readOnlyElements
    THEN [st |-> [st EXCEPT !.errorCode = ERR_READ_ONLY], ret |-> FALSE]
    ELSE IF ~validateSCORMElement(element, value)
    THEN [st |-> [st EXCEPT !.data = Assign(@, element, Sanitized[value]),
                            !.errorCode = ERR_INVALID_DATA],
          ret |-> FALSE]
    ELSE [st |-> [st EXCEPT !.data = Assign(@, element, Sanitized[value]),
                            !.errorCode = ERR_NO_ERROR],
          ret |-> TRUE]

\* setValue that stores the value as it was given.
setValueStoringRaw(st, element, value) ==
    IF ~st.initialized
    THEN [st |-> [st EXCEPT !.errorCode = ERR_NOT_INITIALIZED], ret |-> FALSE]
    ELSE IF element \in readOnlyElements
    THEN [st |-> [st EXCEPT !.errorCode = ERR_READ_ONLY], ret |-> FALSE]
    ELSE IF ~validateSCORMElement(element, value)
    THEN [st |-> [st EXCEPT !.errorCode = ERR_INVALID_DATA], ret |-> FALSE]
    ELSE [st |-> [st EXCEPT !.data = Assign(@, element, value),
                            !.errorCode = ERR_NO_ERROR],
          ret |-> TRUE]

setValue(st, element, value) ==
    IF ~st.initialized
    THEN [st |-> [st EXCEPT !.errorCode = ERR_NOT_INITIALIZED], ret |-> FALSE]
    ELSE IF element \in readOnlyElements
    THEN [st |-> [st EXCEPT !.errorCode = ERR_READ_ONLY], ret |-> FALSE]
    ELSE IF ~validateSCORMElement(element, value)
    THEN [st |-> [st EXCEPT !.errorCode = ERR_INVALID_DATA], ret |-> FALSE]
    ELSE [st |-> [st EXCEPT !.data = Assign(@, element, Sanitized[value]),
                            !.errorCode = ERR_NO_ERROR],
          ret |-> TRUE]

\* commit that leaves the last error as it was.
commitKeepingError(st) ==
    IF ~st.initialized
    THEN [st |-> [st EXCEPT !.errorCode = ERR_NOT_INITIALIZED], ret |-> FALSE]
    ELSE [st |-> st, ret |-> TRUE]

commit(st) ==
    IF ~st.initialized
    THEN [st |-> [st EXCEPT !.errorCode = ERR_NOT_INITIALIZED], ret |-> FALSE]
    ELSE [st |-> [st EXCEPT !.errorCode = ERR_NO_ERROR], ret |-> TRUE]

getLastError(st) == [st |-> st, ret |-> st.errorCode]

errorMessages ==
       (ERR_NO_ERROR :> <<"N","o"," ","e","r","r","o","r">>)
    @@ (ERR_ALREADY_INITIALIZED :>
            <<"G","e","n","e","r","a","l"," ","e","x","c","e","p","t","i","o","n">>)
    @@ (ERR_NOT_INITIALIZED :>
            <<"L","M","S"," ","n","o","t"," ","i","n","i","t","i","a","l","i","z","e","d">>)
    @@ (ERR_READ_ONLY :>
            <<"E","l","e","m","e","n","t"," ","i","s"," ","r","e","a","d"," ","o","n","l","y">>)
    @@ (ERR_NOT_FOUND :>
            <<"E","l","e","m","e","n","t"," ","n","o","t"," ","f","o","u","n","d">>)
    @@ (ERR_INVALID_DATA :>
            <<"I","n","v","a","l","i","d"," ","d","a","t","a">>)

\* errorMessages[errorCode] || "Unknown error"
getErrorString(st, code) ==
    [st |-> st,
     ret |-> IF code \in DOMAIN errorMessages THEN errorMessages[code]
             ELSE <<"U","n","k","n","o","w","n"," ","e","r","r","o","r">>]

(***************************************************************************)
(* createSCORMAPI(dataStore): the SCORM 1.2 call set API and the SCORM     *)
(* 2004 call set API_1484_11, both closed over the same dataStore.  A call *)
(* is an operator from the store to the store it leaves, the string it     *)
(* returns and the store methods it invoked, in order.                     *)
(***************************************************************************)
\* b ? "true" : "false"
BoolStr(b) == IF b THEN <<"t","r","u","e">> ELSE <<"f","a","l","s","e">>

LMSInitialize(st) ==
    LET r == initialize(st)
    IN  [st |-> r.st, ret |-> BoolStr(r.ret), calls |-> <<"initialize">>]

\* LMSFinish that commits and never terminates.
LMSFinishWithoutTerminate(st) ==
    LET c == commit(st)
    IN  [st |-> c.st, ret |-> BoolStr(c.ret), calls |-> <<"commit">>]

LMSFinish(st) ==
    LET c == commit(st)
        t == terminate(c.st)
    IN  [st |-> t.st, ret |-> BoolStr(t.ret),
         calls |-> <<"commit", "terminate">>]

LMSGetValue(st, element) ==
    LET r == getValue(st, element)
    IN  [st |-> r.st, ret |-> r.ret, calls |-> <<"getValue">>]

LMSSetValue(st, element, value) ==
    LET r == setValue(st, element, value)
    IN  [st |-> r.st, ret |-> BoolStr(r.ret), calls |-> <<"setValue">>]

LMSCommit(st) ==
    LET r == commit(st)
    IN  [st |-> r.st, ret |-> BoolStr(r.ret), calls |-> <<"commit">>]

LMSGetLastError(st) ==
    LET r == getLastError(st)
    IN  [st |-> r.st, ret |-> r.ret, calls |-> <<"getLastError">>]

LMSGetErrorString(st, code) ==
    LET r == getErrorString(st, code)
    IN  [st |-> r.st, ret |-> r.ret, calls |-> <<"getErrorString">>]

LMSGetDiagnostic(st, code) == [st |-> st, ret |-> <<>>, calls |-> <<>>]

Initialize(st)           == LMSInitialize(st)
Terminate(st)            == LMSFinish(st)
GetValue(st, element)    == LMSGetValue(st, element)
SetValue(st, element, value) == LMSSetValue(st, element, value)
Commit(st)               == LMSCommit(st)
GetLastError(st)         == LMSGetLastError(st)
GetErrorString(st, code) == LMSGetErrorString(st, code)
GetDiagnostic(st, code)  == LMSGetDiagnostic(st, code)

(***************************************************************************)
(* The arguments of the calls.                                             *)
(***************************************************************************)
\* An element the constructor does not set.
OTHER_ELEMENT == "cmi.objectives.0.id"

\* The (element, value) pairs of the setValue calls.
SetInputs ==
         (readOnlyElements \X {PlainText})
    \cup ({"cmi.core.lesson_status"} \X StatusValues)
    \cup ({"cmi.core.exit"} \X ExitValues)
    \cup ({"cmi.core.score.raw"} \X ScoreValues)
    \cup ({"cmi.core.session_time"} \X TimeValues)
    \cup ({"cmi.suspend_data"} \X TextValues)
    \cup ({"cmi.core.lesson_location", OTHER_ELEMENT}
              \X {PlainText, ScriptText})

\* The elements of the getValue calls.
GetInputs ==
    { "cmi.core.student_id", "cmi.core.lesson_status", "cmi.core.exit",
      "cmi.core.score.raw", "cmi.core.session_time", "cmi.suspend_data",
      "cmi.core.lesson_location", OTHER_ELEMENT }

\* The codes of the getErrorString calls.
ErrorCodeInputs ==
    { ERR_NO_ERROR, ERR_NOT_INITIALIZED, ERR_INVALID_DATA, <<"9","9","9">> }

(***************************************************************************)
(* The components at rest: the state of a component while a specification  *)
(* is about another one.                                                   *)
(***************************************************************************)
\* JavaScript's null, where an object is expected.
NULL == [null |-> TRUE]

\* The player's state before loadManifest: manifest null, no play-list.
ManifestAtRest ==
    /\ manifest = NULL
    /\ resolvedManifest = NULL
    /\ playableItems = <<>>
    /\ mlast = [op |-> "none", arg |-> NULL]

\* The player before any item is loaded and any window is looked at.
\* op is the last operation; item the index loadSCO was last given, loaded
\* whether that call set the iframe's src, requested the paths it asked
\* getPackageFile for and content what it loaded; previous is the item
\* that was playing before; onload whether the iframe's load is due;
\* loads counts the calls of loadSCO; found is what findAPI returned and
\* call the method the content called last.  Indices count from 1, and
\* currentItemIndex is 0 until an item was loaded.
NoLoad ==
    [op |-> "none", packageId |-> "", currentItemIndex |-> 0,
     item |-> 0, loaded |-> FALSE, previous |-> 0, onload |-> FALSE,
     loads |-> 0, requested |-> <<>>, content |-> NULL,
     found |-> [api |-> NULL, attempts |-> 0],
     call |-> [name |-> "", threw |-> FALSE, ret |-> <<>>]]

PlayerAtRest ==
    /\ contexts = <<>>
    /\ player = NoLoad

\* The database as onupgradeneeded creates it.
EmptyDatabase == [packages |-> {}, files |-> {}, keyGenerator |-> 1]

\* The calls of the package manager that can be in progress together.
Tasks == {1, 2}

\* A task that runs no call.
Idle ==
    [op |-> "idle", pc |-> "idle", file |-> NULL, pkg |-> NULL, id |-> "",
     manifest |-> NULL, pending |-> {}, files |-> <<>>, next |-> 0,
     writes |-> 0, archiveRead |-> FALSE, extracted |-> 0]

\* The record of a call that returned: its arguments (file, pkg, id, path),
\* what it returned (ret) or that it threw (raised), whether its open of the
\* database succeeded (opened), the step of the primary tier that failed
\* (failedAt), the writes it made to either tier (writes), whether it read
\* the archive (archiveRead) and the entries it extracted (extracted), the
\* localStorage list its catch block read (catalogBefore), the paths of
\* the file rows of id its transaction held when it returned (rowsLeft).
NoCall ==
    [op |-> "none", file |-> NULL, pkg |-> NULL, id |-> "", path |-> "",
     ret |-> NULL, raised |-> FALSE, opened |-> FALSE, failedAt |-> "none",
     writes |-> 0, archiveRead |-> FALSE, extracted |-> 0,
     catalogBefore |-> <<>>, rowsLeft |-> {}]

PackagesAtRest ==
    /\ idb = EmptyDatabase
    /\ work = EmptyDatabase
    /\ queue = <<>>
    /\ localStorage = <<>>
    /\ tasks = [t \in Tasks |-> Idle]
    /\ plast = NoCall
    /\ passed = {}
    /\ history = [deleted |-> {}, fellBack |-> {}]
    /\ clock = 1
    /\ nops = 0

(***************************************************************************)
(* The state machine: one store instance, called directly by the player    *)
(* and through API and API_1484_11 by the content.                         *)
(***************************************************************************)
\* The instance as a store record.
Store == [data |-> data, initialized |-> initialized, errorCode |-> errorCode]

NO_ELEMENT == ""

\* Whether the call recorded in last was a setValue that was accepted.
LastWasAcceptedSet ==
    /\ last.calls = <<"setValue">>
    /\ IF last.via = "store" THEN last.ret = TRUE
       ELSE last.ret = BoolStr(TRUE)

\* One call: the store becomes r.st; last records the call.
Call(op, via, element, value, r, calls, terminated) ==
    /\ ncalls < MaxCalls
    /\ data' = r.st.data
    /\ initialized' = r.st.initialized
    /\ errorCode' = r.st.errorCode
    /\ last' = [op |-> op, via |-> via, element |-> element, value |-> value,
                ret |-> r.ret, pre |-> Store, calls |-> calls,
                prevSet |-> IF LastWasAcceptedSet
                            THEN <<last.element, last.value>> ELSE <<>>]
    /\ everTerminated' = (everTerminated \/ terminated)
    /\ ncalls' = ncalls + 1
    /\ UNCHANGED <<manifestVars, packageVars, playerVars>>

Init ==
    /\ \E userId \in UserIds :
          /\ data = NewStore(userId).data
          /\ initialized = NewStore(userId).initialized
          /\ errorCode = NewStore(userId).errorCode
    /\ last = [op |-> "new", via |-> "store", element |-> NO_ELEMENT,
               value |-> <<>>, ret |-> FALSE,
               pre |-> [data |-> data, initialized |-> initialized,
                        errorCode |-> errorCode],
               calls |-> <<>>, prevSet |-> <<>>]
    /\ everTerminated = FALSE
    /\ ncalls = 0
    /\ ManifestAtRest
    /\ PackagesAtRest
    /\ PlayerAtRest

\* Direct calls of the store's methods.
DoInitialize ==
    Call("initialize", "store", NO_ELEMENT, <<>>, initialize(Store),
         <<"initialize">>, FALSE)

DoTerminate ==
    Call("terminate", "store", NO_ELEMENT, <<>>, terminate(Store),
         <<"terminate">>, terminate(Store).ret)

DoGetValue ==
    \E element \in GetInputs :
        Call("getValue", "store", element, <<>>, getValue(Store, element),
             <<"getValue">>, FALSE)

DoSetValue ==
    \E in \in SetInputs :
        Call("setValue", "store", in[1], in[2], setValue(Store, in[1], in[2]),
             <<"setValue">>, FALSE)

DoCommit ==
    Call("commit", "store", NO_ELEMENT, <<>>, commit(Store), <<"commit">>,
         FALSE)

DoGetLastError ==
    Call("getLastError", "store", NO_ELEMENT, <<>>, getLastError(Store),
         <<"getLastError">>, FALSE)

DoGetErrorString ==
    \E code \in ErrorCodeInputs :
        Call("getErrorString", "store", NO_ELEMENT, code,
             getErrorString(Store, code), <<"getErrorString">>, FALSE)

\* Calls through the SCORM 1.2 call set.
Via(op, via, element, value, r) ==
    Call(op, via, element, value, r, r.calls,
         initialized /\ ~r.st.initialized)

ApiLMSInitialize == Via("LMSInitialize", "API", NO_ELEMENT, <<>>,
                        LMSInitialize(Store))

ApiLMSFinish == Via("LMSFinish", "API", NO_ELEMENT, <<>>, LMSFinish(Store))

ApiLMSGetValue ==
    \E element \in GetInputs :
        Via("LMSGetValue", "API", element, <<>>, LMSGetValue(Store, element))

ApiLMSSetValue ==
    \E in \in SetInputs :
        Via("LMSSetValue", "API", in[1], in[2],
            LMSSetValue(Store, in[1], in[2]))

ApiLMSCommit == Via("LMSCommit", "API", NO_ELEMENT, <<>>, LMSCommit(Store))

ApiLMSGetLastError ==
    Via("LMSGetLastError", "API", NO_ELEMENT, <<>>, LMSGetLastError(Store))

ApiLMSGetErrorString ==
    \E code \in ErrorCodeInputs :
        Via("LMSGetErrorString", "API", NO_ELEMENT, code,
            LMSGetErrorString(Store, code))

ApiLMSGetDiagnostic ==
    \E code \in ErrorCodeInputs :
        Via("LMSGetDiagnostic", "API", NO_ELEMENT, code,
            LMSGetDiagnostic(Store, code))

\* Calls through the SCORM 2004 call set.
Api2004Initialize == Via("Initialize", "API_1484_11", NO_ELEMENT, <<>>,
                         Initialize(Store))

Api2004Terminate == Via("Terminate", "API_1484_11", NO_ELEMENT, <<>>,
                        Terminate(Store))

Api2004GetValue ==
    \E element \in GetInputs :
        Via("GetValue", "API_1484_11", element, <<>>,
            GetValue(Store, element))

Api2004SetValue ==
    \E in \in SetInputs :
        Via("SetValue", "API_1484_11", in[1], in[2],
            SetValue(Store, in[1], in[2]))

Api2004Commit == Via("Commit", "API_1484_11", NO_ELEMENT, <<>>, Commit(Store))

Api2004GetLastError ==
    Via("GetLastError", "API_1484_11", NO_ELEMENT, <<>>, GetLastError(Store))

Api2004GetErrorString ==
    \E code \in ErrorCodeInputs :
        Via("GetErrorString", "API_1484_11", NO_ELEMENT, code,
            GetErrorString(Store, code))

Api2004GetDiagnostic ==
    \E code \in ErrorCodeInputs :
        Via("GetDiagnostic", "API_1484_11", NO_ELEMENT, code,
            GetDiagnostic(Store, code))

Next ==
    \/ DoInitialize \/ DoTerminate \/ DoGetValue \/ DoSetValue \/ DoCommit
    \/ DoGetLastError \/ DoGetErrorString
    \/ ApiLMSInitialize \/ ApiLMSFinish \/ ApiLMSGetValue \/ ApiLMSSetValue
    \/ ApiLMSCommit \/ ApiLMSGetLastError \/ ApiLMSGetErrorString
    \/ ApiLMSGetDiagnostic
    \/ Api2004Initialize \/ Api2004Terminate \/ Api2004GetValue
    \/ Api2004SetValue \/ Api2004Commit \/ Api2004GetLastError
    \/ Api2004GetErrorString \/ Api2004GetDiagnostic

Spec == Init /\ [][Next]_vars

(***************************************************************************)
(* SCORMManifestParser (lib/scorm-manifest): resolveItemResources and       *)
(* getPlayableItems.  A manifest is a record of its identifier, its         *)
(* organizations and its resources; an item is a record of its identifier,  *)
(* title, href, isVisible and children (the optional attributes that the    *)
(* two functions copy and never read are left out).  An href that is        *)
(* absent is NoHref, an href that is the string s is Href(s).               *)
(***************************************************************************)
NoHref == <<>>

Href(s) == <<s>>

\* The truthiness of item.href: absent and the empty string are falsy.
IsTruthy(href) == href # NoHref /\ href[1] # ""

\* resourceMap: identifier -> resource, a later resource replacing an
\* earlier one of the same identifier.
ResourceMap(resources) ==
    [id \in {resources[i].identifier : i \in 1..Len(resources)} |->
        resources[CHOOSE i \in 1..Len(resources) :
                      /\ resources[i].identifier = id
                      /\ \A j \in (i + 1)..Len(resources) :
                             resources[j].identifier # id]]

\* resolveItems that empties an href the lookup does not know.
RECURSIVE resolveItemsDroppingUnknown(_, _)
resolveItemsDroppingUnknown(items, resourceMap) ==
    [i \in 1..Len(items) |->
        LET item == items[i]
            resolvedHref ==
                IF IsTruthy(item.href) /\ item.href[1] \in DOMAIN resourceMap
                THEN Href(resourceMap[item.href[1]].href)
                ELSE IF IsTruthy(item.href) THEN Href("") ELSE item.href
        IN  [item EXCEPT !.href = resolvedHref,
                         !.children = resolveItemsDroppingUnknown(
                                          item.children, resourceMap)]]

\* resolveItems that leaves the children of an item as they are.
RECURSIVE resolveItemsTopLevelOnly(_, _)
resolveItemsTopLevelOnly(items, resourceMap) ==
    [i \in 1..Len(items) |->
        LET item == items[i]
            resolvedHref ==
                IF IsTruthy(item.href) /\ item.href[1] \in DOMAIN resourceMap
                THEN Href(resourceMap[item.href[1]].href)
                ELSE item.href
        IN  [item EXCEPT !.href = resolvedHref]]

RECURSIVE resolveItems(_, _)
resolveItems(items, resourceMap) ==
    [i \in 1..Len(items) |->
        LET item == items[i]
            resolvedHref ==
                IF IsTruthy(item.href) /\ item.href[1] \in DOMAIN resourceMap
                THEN Href(resourceMap[item.href[1]].href)
                ELSE item.href
        IN  [item EXCEPT !.href = resolvedHref,
                         !.children = resolveItems(item.children,
                                                   resourceMap)]]

\* The object resolveItemResources returns.
ResolvedManifest(m) ==
    [m EXCEPT !.organizations =
        [o \in 1..Len(m.organizations) |->
            [m.organizations[o] EXCEPT
                !.items = resolveItems(m.organizations[o].items,
                                       ResourceMap(m.resources))]]]

\* resolveItemResources that writes the resolved organizations into its
\* argument.
resolveItemResourcesInPlace(m) ==
    [manifest |-> ResolvedManifest(m), result |-> ResolvedManifest(m)]

\* resolveItemResources(manifest): the argument as the call leaves it, and
\* the manifest returned.
resolveItemResources(m) ==
    [manifest |-> m, result |-> ResolvedManifest(m)]

\* extractPlayableItems that does not descend below an item it leaves out.
RECURSIVE extractPlayableItemsOfPlayableParents(_, _)
extractPlayableItemsOfPlayableParents(items, playable) ==
    IF items = <<>> THEN playable
    ELSE LET item == Head(items)
             kept == IsTruthy(item.href) /\ item.isVisible
             pushed == IF kept THEN Append(playable, item) ELSE playable
             descended ==
                 IF kept /\ Len(item.children) > 0
                 THEN extractPlayableItemsOfPlayableParents(item.children,
                                                            pushed)
                 ELSE pushed
         IN  extractPlayableItemsOfPlayableParents(Tail(items), descended)

\* extractPlayableItems(items), run with the list playable built so far: the
\* list after the call.
RECURSIVE extractPlayableItems(_, _)
extractPlayableItems(items, playable) ==
    IF items = <<>> THEN playable
    ELSE LET item == Head(items)
             pushed == IF IsTruthy(item.href) /\ item.isVisible
                       THEN Append(playable, item) ELSE playable
             descended == IF Len(item.children) > 0
                          THEN extractPlayableItems(item.children, pushed)
                          ELSE pushed
         IN  extractPlayableItems(Tail(items), descended)

\* manifest.organizations.forEach(org => extractPlayableItems(org.items)).
RECURSIVE ExtractOrganizations(_, _)
ExtractOrganizations(organizations, playable) ==
    IF organizations = <<>> THEN playable
    ELSE ExtractOrganizations(
             Tail(organizations),
             extractPlayableItems(Head(organizations).items, playable))

getPlayableItems(m) == ExtractOrganizations(m.organizations, <<>>)

(***************************************************************************)
(* The manifests the functions are applied to: every manifest of at most   *)
(* MaxNodes organizations and items, each item of one of the ItemKinds,    *)
(* with each of the ResourceLists, and the manifests of the scenarios.     *)
(***************************************************************************)
\* (href, isVisible) of a generated item: the href absent, empty, the
\* identifier of a resource, or a path that is no identifier.
ItemKinds ==
    {NoHref, Href(""), Href("RES1"), Href("x.html")} \X BOOLEAN

Resource(identifier, href) ==
    [identifier |-> identifier, type |-> "webcontent", href |-> href,
     files |-> IF href = "" THEN <<>> ELSE <<href>>]

\* A resource element without an identifier attribute parses to the
\* identifier "", one without an href attribute to the href "".
ResourceLists ==
    { <<>>,
      <<Resource("RES1", "a.html"), Resource("", "c.html")>>,
      <<Resource("RES1", "RES2"), Resource("RES2", "")>> }

Item(identifier, href, isVisible, children) ==
    [identifier |-> identifier, title |-> "Title of " \o identifier,
     href |-> href, isVisible |-> isVisible, children |-> children]

\* The lists of items of n nodes in all, the k-th and later children of the
\* element called parent.
RECURSIVE ItemLists(_, _, _)
ItemLists(n, parent, k) ==
    IF n = 0 THEN {<<>>}
    ELSE UNION {
        { <<Item(parent \o "." \o ToString(k), kind[1], kind[2], children)>>
              \o rest :
            kind \in ItemKinds,
            children \in ItemLists(m - 1, parent \o "." \o ToString(k), 1),
            rest \in ItemLists(n - m, parent, k + 1) } : m \in 1..n }

\* The lists of organizations of n nodes in all, from the k-th on.
RECURSIVE OrganizationLists(_, _)
OrganizationLists(n, k) ==
    IF n = 0 THEN {<<>>}
    ELSE UNION {
        { <<[identifier |-> "ORG" \o ToString(k),
             title |-> "Organization",
             items |-> items]>> \o rest :
            items \in ItemLists(m - 1, "ORG" \o ToString(k), 1),
            rest \in OrganizationLists(n - m, k + 1) } : m \in 1..n }

GeneratedManifests ==
    { [identifier |-> "MANIFEST", organizations |-> organizations,
       resources |-> resources] :
        organizations \in UNION {OrganizationLists(n, 1) : n \in 0..MaxNodes},
        resources \in ResourceLists }

\* Scenario: items [A, B[C, D], E], B hidden, every item with an href.
OrderManifest ==
    [identifier |-> "ORDER",
     organizations |-> <<
        [identifier |-> "ORG1", title |-> "Organization",
         items |-> <<
            Item("A", Href("a.html"), TRUE, <<>>),
            Item("B", Href("b.html"), FALSE,
                 << Item("C", Href("c.html"), TRUE, <<>>),
                    Item("D", Href("d.html"), TRUE, <<>>) >>),
            Item("E", Href("e.html"), TRUE, <<>>) >>] >>,
     resources |-> <<>>]

\* Scenario: a 2-item course, C1 visible with href a.html, C2 hidden with
\* href b.html, both through resources.
TwoItemManifest ==
    [identifier |-> "TWO",
     organizations |-> <<
        [identifier |-> "ORG1", title |-> "Organization",
         items |-> << Item("C1", Href("R1"), TRUE, <<>>),
                      Item("C2", Href("R2"), FALSE, <<>>) >>] >>,
     resources |-> << Resource("R1", "a.html"), Resource("R2", "b.html") >>]

Manifests == GeneratedManifests \cup {OrderManifest, TwoItemManifest}

(***************************************************************************)
(* The state machine of the manifest functions: the player's loadManifest  *)
(* is given a parsed manifest, resolves it and flattens the resolved       *)
(* manifest into the play-list, in one step.                               *)
(***************************************************************************)
\* The session store as constructed, while the specification is about
\* another component.
StoreAtRest ==
    /\ data = NewStore(DEFAULT_STUDENT_ID).data
    /\ initialized = NewStore(DEFAULT_STUDENT_ID).initialized
    /\ errorCode = NewStore(DEFAULT_STUDENT_ID).errorCode
    /\ last = [op |-> "new", via |-> "store", element |-> NO_ELEMENT,
               value |-> <<>>, ret |-> FALSE,
               pre |-> NewStore(DEFAULT_STUDENT_ID),
               calls |-> <<>>, prevSet |-> <<>>]
    /\ everTerminated = FALSE
    /\ ncalls = 0

ManifestInit ==
    /\ StoreAtRest
    /\ PackagesAtRest
    /\ PlayerAtRest
    /\ manifest \in Manifests
    /\ resolvedManifest = NULL
    /\ playableItems = <<>>
    /\ mlast = [op |-> "parseFromXML", arg |-> NULL]

LoadManifest ==
    /\ mlast.op = "parseFromXML"
    /\ LET r == resolveItemResources(manifest)
       IN  /\ manifest' = r.manifest
           /\ resolvedManifest' = r.result
           /\ playableItems' = getPlayableItems(r.result)
    /\ mlast' = [op |-> "loadManifest", arg |-> manifest]
    /\ UNCHANGED <<storeVars, packageVars, playerVars>>

ManifestNext == LoadManifest

ManifestSpec == ManifestInit /\ [][ManifestNext]_vars

(***************************************************************************)
(* SCORMPackageManager (lib/scorm-package-manager).  The primary tier is   *)
(* the IndexedDB database SCORMPackages: idb is its committed content, the *)
(* content every transaction that starts now reads; queue holds the        *)
(* read-write transactions that were created and have not finished, in the *)
(* order of their creation, and only the first of them is running (the     *)
(* others share its scope and wait); work is the database as the running   *)
(* transaction sees it.  A request that fails aborts its transaction,      *)
(* which leaves the committed content as it was.  The degraded tier is the *)
(* list stored in localStorage under STORAGE_KEY; localStorage itself is   *)
(* taken to work.  File names are sequences of characters; paths, ids and  *)
(* payloads are atoms.                                                     *)
(***************************************************************************)
MAX_PACKAGE_SIZE == 100 * 1024 * 1024

\* file.name.toLowerCase().endsWith('.zip')
EndsWithZip(name) == MatchesAt(name, Len(name) - 3, <<".", "z", "i", "p">>)

\* file.name.replace('.zip', ''): the first occurrence, compared with case.
\* (DOMPurify.sanitize then strips markup; the names of the model have none.)
ReplaceZip(name) ==
    LET i == FirstIndex({k \in 1..(Len(name) - 3) :
                            SubSeq(name, k, k + 3) = <<".", "z", "i", "p">>},
                        1, Len(name))
    IN  IF i > Len(name) THEN name
        ELSE SubSeq(name, 1, i - 1) \o SubSeq(name, i + 4, Len(name))

\* The checks of uploadPackage with the size check left out.
ValidateFileNameOnly(file) ==
    IF ~EndsWithZip(file.name) THEN "SCORM packages must be ZIP files"
    ELSE ""

\* The checks uploadPackage makes before it reads the file: the message of
\* the error thrown, or "" when none is.
ValidateFile(file) ==
    IF ~EndsWithZip(file.name) THEN "SCORM packages must be ZIP files"
    ELSE IF file.size > MAX_PACKAGE_SIZE
         THEN "Package size exceeds 100MB limit"
         ELSE ""

\* SCORMManifestParser.parseFromXML on a document given by what the
\* DOMParser makes of it: the error thrown ("" when none) and the manifest.
parseFromXML(xml) ==
    IF ~xml.wellFormed THEN [error |-> "Invalid XML", manifest |-> NULL]
    ELSE IF ~xml.hasManifest
         THEN [error |-> "No manifest element found", manifest |-> NULL]
         ELSE [error |-> "", manifest |-> xml.manifest]

\* uploadPackage from zip.loadAsync(file) to the check of the
\* organizations: the error thrown ("" when none) and the manifest.
ReadManifest(archive) ==
    LET found == {i \in 1..Len(archive.entries) :
                     /\ archive.entries[i].path = "imsmanifest.xml"
                     /\ ~archive.entries[i].dir}
        parsed == parseFromXML(
                      archive.entries[CHOOSE i \in found : TRUE].content)
    IN  IF ~archive.isZip
        THEN [error |-> "Corrupted zip", manifest |-> NULL]
        ELSE IF found = {}
        THEN [error |-> "Invalid SCORM package: imsmanifest.xml not found",
              manifest |-> NULL]
        ELSE IF parsed.error # "" THEN parsed
        ELSE IF Len(parsed.manifest.organizations) = 0
        THEN [error |-> "Invalid SCORM manifest: No organizations found",
              manifest |-> NULL]
        ELSE parsed

\* `scorm_${Date.now()}_${random}`, taken to differ from one upload to the
\* next: the clock of the model advances with every id.
generatePackageId(now) == "scorm_" \o ToString(now)

\* packageData, the record written to the packages store and pushed on the
\* localStorage list: no file payloads.
PackageData(scormPackage) ==
    [id |-> scormPackage.id,
     name |-> scormPackage.name,
     uploadDate |-> [iso |-> scormPackage.uploadDate.time],
     manifest |-> scormPackage.manifest,
     size |-> scormPackage.size]

\* The package a read builds from a stored record.
StoredPackage(record) ==
    [id |-> record.id,
     name |-> record.name,
     uploadDate |-> [time |-> record.uploadDate.iso],
     manifest |-> record.manifest,
     size |-> record.size,
     files |-> <<>>]

\* packageStore.put(packageData): keyPath id, a record of the same id is
\* replaced.
PutPackageData(db, packageData) ==
    [db EXCEPT !.packages =
        {p \in @ : p.id # packageData.id} \cup {packageData}]

\* The key a row has in an index of the files store: 'packageId' is on the
\* string packageId, 'packagePath' on the array [packageId, path].
IndexKey(indexName, row) ==
    IF indexName = "packageId" THEN [string |-> row.packageId]
    ELSE [array |-> <<row.packageId, row.path>>]

\* fileStore.put({packageId, path, blob}): the key is generated; the unique
\* index packagePath refuses a second row of the same (packageId, path).
PutFileRow(db, row) ==
    IF \E r \in db.files :
           IndexKey("packagePath", r) = IndexKey("packagePath", row)
    THEN [error |-> TRUE, db |-> db]
    ELSE [error |-> FALSE,
          db |-> [db EXCEPT
                    !.files = @ \cup {[id |-> db.keyGenerator,
                                       packageId |-> row.packageId,
                                       path |-> row.path,
                                       blob |-> row.blob]},
                    !.keyGenerator = @ + 1]]

\* index.get(key) / index.getAll(key): the rows whose key in the index
\* equals key.
IndexGetAll(db, indexName, key) ==
    {r \in db.files : IndexKey(indexName, r) = key}

\* The blob getPackageFile resolves to: request.result?.blob || null, the
\* request being index('packageId').get([packageId, filePath]).
FileBlob(db, packageId, filePath) ==
    LET rows == IndexGetAll(db, "packageId",
                            [array |-> <<packageId, filePath>>])
    IN  IF rows = {} THEN NULL
        ELSE (CHOOSE r \in rows : \A q \in rows : r.id <= q.id).blob

\* An aborted transaction that leaves its writes in the database.
AbortKeepingWrites(committed, working) == working

\* The committed content after the running transaction aborted.
Abort(committed, working) == committed


\* A catch block that writes back a list holding its own record only.
CatchStoreErrorLosingCatalog(catalog, scormPackage) ==
    [raised |-> FALSE, catalog |-> <<PackageData(scormPackage)>>]

\* storePackage without its catch block: the error goes to the caller.
RethrowStoreError(catalog, scormPackage) ==
    [raised |-> TRUE, catalog |-> catalog]

\* The catch block of storePackage: the list read from localStorage, the
\* record pushed, the list written back; nothing is thrown.
CatchStoreError(catalog, scormPackage) ==
    [raised |-> FALSE, catalog |-> Append(catalog, PackageData(scormPackage))]

\* packages.filter(pkg => pkg.id !== packageId)
FilterCatalog(catalog, packageId) ==
    LET keep == {i \in 1..Len(catalog) : catalog[i].id # packageId}
    IN  [k \in 1..Cardinality(keep) |->
            catalog[CHOOSE i \in keep :
                        Cardinality({j \in keep : j < i}) = k - 1]]

(***************************************************************************)
(* The files given to uploadPackage and the package given to storePackage  *)
(* by the authoring form.                                                  *)
(***************************************************************************)
\* An archive with a manifest entry of the document xml, a directory entry
\* and one content file.
Archive(xml) ==
    [isZip |-> TRUE,
     entries |-> << [path |-> "imsmanifest.xml", dir |-> FALSE,
                     content |-> xml],
                    [path |-> "img/", dir |-> TRUE, content |-> NULL],
                    [path |-> "a.html", dir |-> FALSE,
                     content |-> [text |-> "a"]] >>]

GoodArchive ==
    Archive([wellFormed |-> TRUE, hasManifest |-> TRUE,
             manifest |-> TwoItemManifest])

\* A file that passes every check, and one file for each way of failing:
\* the name, the size, not a zip archive, no manifest entry (in a file
\* named in upper case and of exactly the size limit, which passes the
\* checks of name and size), a manifest that is not XML, a document without
\* a manifest element, no organization.
UploadFiles ==
    { [name |-> <<"c","o","u","r","s","e",".","z","i","p">>,
       size |-> 1024, archive |-> GoodArchive],
      [name |-> <<"C","O","U","R","S","E",".","Z","I","P">>,
       size |-> MAX_PACKAGE_SIZE,
       archive |-> [isZip |-> TRUE,
                    entries |-> << [path |-> "a.html", dir |-> FALSE,
                                    content |-> [text |-> "a"]] >>]],
      [name |-> <<"c","o","u","r","s","e",".","t","x","t">>,
       size |-> 1024, archive |-> GoodArchive],
      [name |-> <<"b","i","g",".","z","i","p">>,
       size |-> MAX_PACKAGE_SIZE + 1, archive |-> GoodArchive],
      [name |-> <<"n","o","z","i","p",".","z","i","p">>,
       size |-> 1024, archive |-> [isZip |-> FALSE, entries |-> <<>>]],
      [name |-> <<"n","o","x","m","l",".","z","i","p">>,
       size |-> 1024,
       archive |-> Archive([wellFormed |-> FALSE, hasManifest |-> FALSE,
                            manifest |-> NULL])],
      [name |-> <<"n","o","r","o","o","t",".","z","i","p">>,
       size |-> 1024,
       archive |-> Archive([wellFormed |-> TRUE, hasManifest |-> FALSE,
                            manifest |-> NULL])],
      [name |-> <<"n","o","o","r","g","s",".","z","i","p">>,
       size |-> 1024,
       archive |-> Archive([wellFormed |-> TRUE, hasManifest |-> TRUE,
                            manifest |-> [identifier |-> "EMPTY",
                                          organizations |-> <<>>,
                                          resources |-> <<>>]])] }

\* The package the authoring form builds and stores.
AuthoredPackage ==
    [id |-> "authored_1",
     name |-> <<"Q","u","i","z">>,
     uploadDate |-> [time |-> 0],
     manifest |->
        [identifier |-> "authored_1",
         organizations |-> <<
            [identifier |-> "authored_org", title |-> "Quiz",
             items |-> << Item("content_item", Href("content.html"), TRUE,
                               <<>>) >>] >>,
         resources |-> << Resource("content_item", "content.html") >>],
     files |-> << [path |-> "content.html", blob |-> [text |-> "content"]],
                  [path |-> "imsmanifest.xml",
                   blob |-> [text |-> "manifest"]] >>,
     size |-> 7]

(***************************************************************************)
(* The state machine of the package manager.  A call of uploadPackage,     *)
(* storePackage or deletePackage runs as one of the Tasks, a step from one *)
(* await to the next; the reads are single steps.  Each open of the        *)
(* database, each request and each completion of a transaction succeeds or *)
(* fails.                                                                  *)
(***************************************************************************)
\* The primary tier after storePackage of the authored package succeeded.
AuthoredInPrimary ==
    LET id == AuthoredPackage.id
        file1 == AuthoredPackage.files[1]
        file2 == AuthoredPackage.files[2]
        d0 == PutPackageData(EmptyDatabase, PackageData(AuthoredPackage))
        d1 == PutFileRow(d0, [packageId |-> id, path |-> file1.path,
                              blob |-> file1.blob]).db
    IN  PutFileRow(d1, [packageId |-> id, path |-> file2.path,
                        blob |-> file2.blob]).db

\* The storage as an earlier session of the page left it: nothing stored,
\* or the authored package stored in the primary tier, or in the degraded
\* tier.
InitialStorages ==
    { [idb |-> EmptyDatabase, localStorage |-> <<>>, passed |-> {},
       fellBack |-> {}],
      [idb |-> AuthoredInPrimary, localStorage |-> <<>>,
       passed |-> {AuthoredPackage}, fellBack |-> {}],
      [idb |-> EmptyDatabase,
       localStorage |-> CatchStoreError(<<>>, AuthoredPackage).catalog,
       passed |-> {AuthoredPackage},
       fellBack |-> {[id |-> AuthoredPackage.id, concurrent |-> FALSE]}] }

PackageInit ==
    /\ StoreAtRest
    /\ ManifestAtRest
    /\ PlayerAtRest
    /\ \E storage \in InitialStorages :
          /\ idb = storage.idb
          /\ work = storage.idb
          /\ localStorage = storage.localStorage
          /\ passed = storage.passed
          /\ history = [deleted |-> {}, fellBack |-> storage.fellBack]
    /\ queue = <<>>
    /\ tasks = [t \in Tasks |-> Idle]
    /\ plast = NoCall
    /\ clock = 1
    /\ nops = 0

\* Another task than t is in a storePackage call for the package id.
StoreInProgress(t, id) ==
    \E u \in Tasks \ {t} : tasks[u].pkg # NULL /\ tasks[u].pkg.id = id

\* The history once the call of task t has returned as `call` says: a
\* store that fell back is noted with whether another store was in
\* progress; a delete is noted unless a store of the id is in progress,
\* and its catch block takes the id out of the fallbacks.
Returned(t, call) ==
    LET id == IF tasks[t].pkg = NULL THEN tasks[t].id ELSE tasks[t].pkg.id
    IN  IF tasks[t].op = "deletePackage"
        THEN [deleted |-> IF StoreInProgress(t, id) THEN history.deleted
                          ELSE history.deleted \cup {id},
              fellBack |-> IF call.failedAt # "none"
                           THEN {e \in history.fellBack : e.id # id}
                           ELSE history.fellBack]
        ELSE IF call.failedAt # "none" /\ ~call.raised
        THEN [history EXCEPT !.fellBack = @ \cup
                 {[id |-> id,
                   concurrent |-> \E u \in Tasks \ {t} :
                                      tasks[u].pkg # NULL]}]
        ELSE history

\* The call of task t returns or throws.
Return(t, call) ==
    /\ tasks' = [tasks EXCEPT ![t] = Idle]
    /\ history' = Returned(t, call)
    /\ plast' = [call EXCEPT !.op = tasks[t].op,
                             !.file = tasks[t].file,
                             !.pkg = tasks[t].pkg,
                             !.id = IF tasks[t].pkg = NULL THEN tasks[t].id
                                    ELSE tasks[t].pkg.id,
                             !.archiveRead = tasks[t].archiveRead,
                             !.extracted = tasks[t].extracted]

\* Task t goes on to its next await.
Continue(t, task) ==
    /\ tasks' = [tasks EXCEPT ![t] = task]
    /\ history' = IF tasks[t].pkg = NULL /\ task.pkg # NULL
                  THEN [history EXCEPT !.deleted = @ \ {task.pkg.id}]
                  ELSE history
    /\ UNCHANGED plast

\* Task t can take a new call: the idle task of the lowest number does.
FreeTask(t) ==
    /\ tasks[t].op = "idle"
    /\ \A u \in Tasks : u < t => tasks[u].op # "idle"

\* Task t owns the running transaction.
Running(t) == queue # <<>> /\ Head(queue).task = t

\* The running transaction aborts.
AbortTransaction ==
    /\ idb' = Abort(idb, work)
    /\ work' = Abort(idb, work)
    /\ queue' = Tail(queue)

\* uploadPackage(file) up to zip.loadAsync(file).
UploadPackage(t) ==
    \E file \in UploadFiles :
        /\ FreeTask(t)
        /\ nops < MaxOps
        /\ nops' = nops + 1
        /\ IF ValidateFile(file) # ""
           THEN /\ tasks' = tasks
                /\ history' = history
                /\ plast' = [NoCall EXCEPT !.op = "uploadPackage",
                                            !.file = file, !.raised = TRUE]
           ELSE Continue(t, [Idle EXCEPT !.op = "uploadPackage",
                                         !.pc = "loadAsync", !.file = file])
        /\ UNCHANGED <<storeVars, manifestVars, playerVars,
                       idb, work, queue, localStorage, passed, clock>>

\* The archive is read, the manifest entry found and parsed, the
\* organizations checked; the extraction of every entry that is no
\* directory is started.
LoadArchive(t) ==
    /\ tasks[t].pc = "loadAsync"
    /\ LET archive == tasks[t].file.archive
           r == ReadManifest(archive)
           read == [tasks[t] EXCEPT !.archiveRead = TRUE]
       IN  IF r.error # ""
           THEN /\ tasks' = [tasks EXCEPT ![t] = Idle]
                /\ history' = history
                /\ plast' = [NoCall EXCEPT !.op = "uploadPackage",
                                            !.file = tasks[t].file,
                                            !.raised = TRUE,
                                            !.archiveRead = TRUE]
           ELSE Continue(t, [read EXCEPT
                    !.pc = "extract",
                    !.manifest = r.manifest,
                    !.pending = {i \in 1..Len(archive.entries) :
                                    ~archive.entries[i].dir}])
    /\ UNCHANGED <<storeVars, manifestVars, playerVars,
                   idb, work, queue, localStorage, passed, clock, nops>>

\* One extraction completes: files.set(relativePath, blob).
ExtractEntry(t) ==
    \E i \in tasks[t].pending :
        /\ tasks[t].pc = "extract"
        /\ LET entry == tasks[t].file.archive.entries[i]
           IN  Continue(t, [tasks[t] EXCEPT
                   !.pending = @ \ {i},
                   !.files = Append(@, [path |-> entry.path,
                                        blob |-> entry.content]),
                   !.extracted = @ + 1])
        /\ UNCHANGED <<storeVars, manifestVars, playerVars,
                       idb, work, queue, localStorage, passed, clock, nops>>

\* An await that goes on as soon as one extraction has completed.
FirstExtracted(task) == task.pending = {} \/ task.extracted > 0

\* await Promise.all(filePromises): every extraction has completed.
AllExtracted(task) == task.pending = {}

\* Promise.all(filePromises) has resolved: the package object is built and
\* storePackage called, up to its open of the database.
UploadStorePackage(t) ==
    /\ tasks[t].pc = "extract"
    /\ AllExtracted(tasks[t])
    /\ LET scormPackage ==
               [id |-> generatePackageId(clock),
                name |-> ReplaceZip(tasks[t].file.name),
                uploadDate |-> [time |-> clock],
                manifest |-> tasks[t].manifest,
                files |-> tasks[t].files,
                size |-> tasks[t].file.size]
       IN  /\ Continue(t, [tasks[t] EXCEPT !.pc = "openDatabase",
                                           !.pkg = scormPackage])
           /\ passed' = passed \cup {scormPackage}
    /\ clock' = clock + 1
    /\ UNCHANGED <<storeVars, manifestVars, playerVars,
                   idb, work, queue, localStorage, nops>>

\* storePackage(scormPackage) called by the authoring form, up to its open
\* of the database.
StorePackage(t) ==
    /\ FreeTask(t)
    /\ nops < MaxOps
    /\ nops' = nops + 1
    /\ Continue(t, [Idle EXCEPT !.op = "storePackage",
                                !.pc = "openDatabase",
                                !.pkg = AuthoredPackage])
    /\ passed' = passed \cup {AuthoredPackage}
    /\ UNCHANGED <<storeVars, manifestVars, playerVars,
                   idb, work, queue, localStorage, clock>>

\* The catch block of storePackage, after the step named failed: the call
\* returns, or throws when the catch block does.
StoreFailed(t, step) ==
    LET caught == CatchStoreError(localStorage, tasks[t].pkg)
    IN  /\ localStorage' = caught.catalog
        /\ Return(t, [NoCall EXCEPT
                         !.raised = caught.raised,
                         !.opened = (step # "open"),
                         !.failedAt = step,
                         !.writes = tasks[t].writes
                                    + (IF caught.raised THEN 0 ELSE 1),
                         !.catalogBefore = localStorage])

\* storePackage: openDatabase() and db.transaction([...], 'readwrite').
StoreOpen(t) ==
    /\ tasks[t].op \in {"uploadPackage", "storePackage"}
    /\ tasks[t].pc = "openDatabase"
    /\ \E ok \in BOOLEAN :
          IF ok
          THEN /\ queue' = Append(queue, [task |-> t, kind |-> "store",
                                          id |-> tasks[t].pkg.id])
               /\ Continue(t, [tasks[t] EXCEPT !.pc = "putPackage"])
               /\ UNCHANGED <<idb, work, localStorage>>
          ELSE /\ StoreFailed(t, "open")
               /\ UNCHANGED <<idb, work, queue>>
    /\ UNCHANGED <<storeVars, manifestVars, playerVars, passed, clock, nops>>

\* storePackage: packageStore.put(packageData).
StorePutPackage(t) ==
    /\ tasks[t].pc = "putPackage"
    /\ Running(t)
    /\ \E ok \in BOOLEAN :
          IF ok
          THEN /\ work' = PutPackageData(work, PackageData(tasks[t].pkg))
               /\ Continue(t, [tasks[t] EXCEPT !.pc = "putFile",
                                               !.next = 1,
                                               !.writes = @ + 1])
               /\ UNCHANGED <<idb, queue, localStorage>>
          ELSE /\ AbortTransaction
               /\ StoreFailed(t, "putPackage")
    /\ UNCHANGED <<storeVars, manifestVars, playerVars, passed, clock, nops>>

\* storePackage: fileStore.put({packageId, path, blob}) of the next file of
\* the map.
StorePutFile(t) ==
    /\ tasks[t].pc = "putFile"
    /\ Running(t)
    /\ tasks[t].next <= Len(tasks[t].pkg.files)
    /\ LET file == tasks[t].pkg.files[tasks[t].next]
           put == PutFileRow(work, [packageId |-> tasks[t].pkg.id,
                                    path |-> file.path,
                                    blob |-> file.blob])
       IN  \E ok \in BOOLEAN :
              IF ok /\ ~put.error
              THEN /\ work' = put.db
                   /\ Continue(t, [tasks[t] EXCEPT !.next = @ + 1,
                                                   !.writes = @ + 1])
                   /\ UNCHANGED <<idb, queue, localStorage>>
              ELSE /\ AbortTransaction
                   /\ StoreFailed(t, "putFile")
    /\ UNCHANGED <<storeVars, manifestVars, playerVars, passed, clock, nops>>

\* storePackage: the transaction completes (and the call returns; an upload
\* returns the package), or fails.
StoreComplete(t) ==
    /\ tasks[t].pc = "putFile"
    /\ Running(t)
    /\ tasks[t].next > Len(tasks[t].pkg.files)
    /\ \E ok \in BOOLEAN :
          IF ok
          THEN /\ idb' = work
               /\ queue' = Tail(queue)
               /\ Return(t, [NoCall EXCEPT !.opened = TRUE,
                                           !.writes = tasks[t].writes])
               /\ UNCHANGED <<work, localStorage>>
          ELSE /\ AbortTransaction
               /\ StoreFailed(t, "complete")
    /\ UNCHANGED <<storeVars, manifestVars, playerVars, passed, clock, nops>>

\* The ids the reads and deletes are given: of the packages given to
\* storePackage so far, and one of no package.
PackageIds == {p.id : p \in passed} \cup {"scorm_0"}

\* deletePackage(packageId) up to its open of the database.
DeletePackage(t) ==
    \E packageId \in PackageIds :
        /\ FreeTask(t)
        /\ nops < MaxOps
        /\ nops' = nops + 1
        /\ Continue(t, [Idle EXCEPT !.op = "deletePackage",
                                    !.pc = "openDatabase",
                                    !.id = packageId])
        /\ UNCHANGED <<storeVars, manifestVars, playerVars,
                       idb, work, queue, localStorage, passed, clock>>

\* The catch block of deletePackage.
DeleteFailed(t, step) ==
    /\ localStorage' = FilterCatalog(localStorage, tasks[t].id)
    /\ Return(t, [NoCall EXCEPT !.opened = (step # "open"),
                                !.failedAt = step,
                                !.writes = tasks[t].writes + 1,
                                !.catalogBefore = localStorage])

\* deletePackage: openDatabase() and db.transaction([...], 'readwrite').
DeleteOpen(t) ==
    /\ tasks[t].op = "deletePackage"
    /\ tasks[t].pc = "openDatabase"
    /\ \E ok \in BOOLEAN :
          IF ok
          THEN /\ queue' = Append(queue, [task |-> t, kind |-> "delete",
                                          id |-> tasks[t].id])
               /\ Continue(t, [tasks[t] EXCEPT !.pc = "delete"])
               /\ UNCHANGED <<idb, work, localStorage>>
          ELSE /\ DeleteFailed(t, "open")
               /\ UNCHANGED <<idb, work, queue>>
    /\ UNCHANGED <<storeVars, manifestVars, playerVars, passed, clock, nops>>

\* deletePackage: packageStore.delete(packageId) succeeds, the call issues
\* fileIndex.getAll(packageId) and returns, its transaction still running
\* with that request pending (task 0 is no task's); or the delete fails.
DeleteRecord(t) ==
    /\ tasks[t].pc = "delete"
    /\ Running(t)
    /\ \E ok \in BOOLEAN :
          IF ok
          THEN /\ work' = [work EXCEPT !.packages =
                              {p \in @ : p.id # tasks[t].id}]
               /\ queue' = <<[task |-> 0, kind |-> "getAll",
                              id |-> tasks[t].id]>> \o Tail(queue)
               /\ Return(t, [NoCall EXCEPT
                      !.opened = TRUE,
                      !.writes = tasks[t].writes + 1,
                      !.rowsLeft = {r.path : r \in
                                      {x \in work.files :
                                          x.packageId = tasks[t].id}}])
               /\ UNCHANGED <<idb, localStorage>>
          ELSE /\ AbortTransaction
               /\ DeleteFailed(t, "delete")
    /\ UNCHANGED <<storeVars, manifestVars, playerVars, passed, clock, nops>>

\* fileRequest.onsuccess of deletePackage: every row of the package is
\* deleted and the transaction completes; or a request fails and the
\* transaction aborts, which nothing reports.
DeleteFiles ==
    /\ queue # <<>>
    /\ Head(queue).kind = "getAll"
    /\ \E ok \in BOOLEAN :
          IF ok
          THEN LET rows == IndexGetAll(work, "packageId",
                                       [string |-> Head(queue).id])
                   done == [work EXCEPT
                               !.files = {r \in @ :
                                   \A row \in rows : r.id # row.id}]
               IN  /\ idb' = done
                   /\ work' = done
                   /\ queue' = Tail(queue)
          ELSE AbortTransaction
    /\ UNCHANGED <<storeVars, manifestVars, playerVars,
                   localStorage, tasks, plast, passed, clock, history,
                   nops>>

\* The keys of the packages store in the order getAll returns them.
KeyOrder ==
    [k \in 1..(MaxOps + 2) |->
        IF k = 1 THEN "authored_1" ELSE generatePackageId(k - 1)]

\* store.getAll() of the packages store: the records in key order.
GetAll(db) ==
    LET keys == {k \in DOMAIN KeyOrder :
                    \E p \in db.packages : p.id = KeyOrder[k]}
    IN  [n \in 1..Cardinality(keys) |->
            CHOOSE p \in db.packages :
                \E k \in keys :
                    /\ p.id = KeyOrder[k]
                    /\ Cardinality({j \in keys : j < k}) = n - 1]

\* getStoredPackages().  A read-only transaction waits for the read-write
\* transactions created before it.
GetStoredPackages ==
    \E ok \in BOOLEAN :
        /\ nops < MaxOps
        /\ nops' = nops + 1
        /\ ok => queue = <<>>
        /\ LET list == IF ok THEN GetAll(idb) ELSE localStorage
           IN  plast' = [NoCall EXCEPT
                   !.op = "getStoredPackages", !.opened = ok,
                   !.ret = [packages |->
                               [k \in 1..Len(list) |->
                                   StoredPackage(list[k])]]]
        /\ UNCHANGED <<storeVars, manifestVars, playerVars,
                       idb, work, queue, localStorage, tasks, passed, clock,
                       history>>

\* getPackageById(packageId).  A read-only transaction waits for the
\* read-write transactions created before it.
GetPackageById ==
    \E packageId \in PackageIds, ok \in BOOLEAN :
        /\ nops < MaxOps
        /\ nops' = nops + 1
        /\ IF ok
           THEN /\ queue = <<>>
                /\ LET found == {p \in idb.packages : p.id = packageId}
                   IN  plast' = [NoCall EXCEPT
                           !.op = "getPackageById", !.id = packageId,
                           !.opened = TRUE,
                           !.ret = IF found = {} THEN NULL
                                   ELSE StoredPackage(CHOOSE p \in found :
                                                          TRUE)]
           ELSE LET found == {i \in 1..Len(localStorage) :
                                 localStorage[i].id = packageId}
                IN  plast' = [NoCall EXCEPT
                        !.op = "getPackageById", !.id = packageId,
                        !.ret = IF found = {} THEN NULL
                                ELSE StoredPackage(localStorage[
                                         CHOOSE i \in found :
                                             \A j \in found : i <= j])]
        /\ UNCHANGED <<storeVars, manifestVars, playerVars,
                       idb, work, queue, localStorage, tasks, passed, clock,
                       history>>

\* The paths getPackageFile is asked for.
FilePaths == {"a.html", "content.html", "b.html"}

\* getPackageFile(packageId, filePath).
GetPackageFile ==
    \E packageId \in PackageIds, filePath \in FilePaths, ok \in BOOLEAN :
        /\ nops < MaxOps
        /\ nops' = nops + 1
        /\ ok => queue = <<>>
        /\ plast' = [NoCall EXCEPT
                        !.op = "getPackageFile", !.id = packageId,
                        !.path = filePath, !.opened = ok,
                        !.ret = IF ok THEN FileBlob(idb, packageId, filePath)
                                ELSE NULL]
        /\ UNCHANGED <<storeVars, manifestVars, playerVars,
                       idb, work, queue, localStorage, tasks, passed, clock,
                       history>>

PackageNext ==
    \/ \E t \in Tasks :
          \/ UploadPackage(t) \/ LoadArchive(t) \/ ExtractEntry(t)
          \/ UploadStorePackage(t) \/ StorePackage(t) \/ StoreOpen(t)
          \/ StorePutPackage(t) \/ StorePutFile(t) \/ StoreComplete(t)
          \/ DeletePackage(t) \/ DeleteOpen(t) \/ DeleteRecord(t)
    \/ DeleteFiles
    \/ GetStoredPackages
    \/ GetPackageById
    \/ GetPackageFile

PackageSpec == PackageInit /\ [][PackageNext]_vars

(***************************************************************************)
(* SCORMPlayer (components/SCORMPlayer): the windows.  A window is the     *)
(* record of its API and API_1484_11 properties (NULL when the property is *)
(* undefined) and of its parent: the index in contexts of the parent       *)
(* window, its own index for a top-level window, 0 for a parent of null.   *)
(* An API object is the record of the call set it was built as, the object *)
(* it wraps (createDebugAPI) and the window it was first bound on.         *)
(***************************************************************************)
\* attempts < 500
MAX_ATTEMPTS == 500

APIObject(object, owner) == [object |-> object, of |-> NULL, owner |-> owner]

\* !win.API && !win.API_1484_11
HasNoAPI(win) == win.API = NULL /\ win.API_1484_11 = NULL

\* win.API || win.API_1484_11
FoundAPI(win) == IF win.API # NULL THEN win.API ELSE win.API_1484_11

\* while (cond) body, evaluated n times: n is the number of windows, which
\* no loop over a chain outruns.  The turns are made in two halves, the
\* first evaluated before the second starts.
\* The condition and body of the loop that stops at no number of attempts.
StepWithoutLimit(ctx, s) ==
    IF /\ HasNoAPI(ctx[s.win])
       /\ ctx[s.win].parent # 0
       /\ ctx[s.win].parent # s.win
    THEN [win |-> ctx[s.win].parent, attempts |-> s.attempts + 1,
          broke |-> FALSE]
    ELSE s

RECURSIVE AscendWithoutLimit(_, _, _)
AscendWithoutLimit(ctx, s, n) ==
    IF n = 0 THEN s
    ELSE IF n = 1 THEN StepWithoutLimit(ctx, s)
    ELSE LET half == AscendWithoutLimit(ctx, s, n \div 2)
         IN  IF half.attempts >= 0
             THEN AscendWithoutLimit(ctx, half, n - (n \div 2))
             ELSE half

\* findAPI whose loop stops at no number of attempts.
findAPIWithoutLimit(ctx, win) ==
    LET r == AscendWithoutLimit(ctx, [win |-> win, attempts |-> 0,
                                      broke |-> FALSE], Len(ctx))
    IN  [api |-> FoundAPI(ctx[r.win]), attempts |-> r.attempts]

\* One turn of the while loop of the findAPI that injectSCORMAPI defines:
\* the condition and, when it holds, the body, which breaks on a parent
\* that has one of the properties.
AscendStep(ctx, s) ==
    IF /\ ~s.broke
       /\ HasNoAPI(ctx[s.win])
       /\ ctx[s.win].parent # 0
       /\ ctx[s.win].parent # s.win
       /\ s.attempts < MAX_ATTEMPTS
    THEN [win |-> ctx[s.win].parent, attempts |-> s.attempts + 1,
          broke |-> ~HasNoAPI(ctx[ctx[s.win].parent])]
    ELSE s

\* n turns of the loop.
RECURSIVE Ascend(_, _, _)
Ascend(ctx, s, n) ==
    IF n = 0 THEN s
    ELSE IF n = 1 THEN AscendStep(ctx, s)
    ELSE LET half == Ascend(ctx, s, n \div 2)
         IN  IF half.attempts >= 0
             THEN Ascend(ctx, half, n - (n \div 2))
             ELSE half

\* iframeWindow.findAPI(win), defined by injectSCORMAPI.
findAPI(ctx, win) ==
    LET r == Ascend(ctx, [win |-> win, attempts |-> 0, broke |-> FALSE],
                    Len(ctx))
    IN  [api |-> FoundAPI(ctx[r.win]), attempts |-> r.attempts]

\* One turn of the while loop of the findAPI of the script that loadSCO
\* adds to the content.
BootstrapAscendStep(ctx, s) ==
    IF /\ HasNoAPI(ctx[s.win])
       /\ ctx[s.win].parent # 0
       /\ ctx[s.win].parent # s.win
       /\ s.attempts < MAX_ATTEMPTS
    THEN [win |-> ctx[s.win].parent, attempts |-> s.attempts + 1,
          broke |-> FALSE]
    ELSE s

RECURSIVE BootstrapAscend(_, _, _)
BootstrapAscend(ctx, s, n) ==
    IF n = 0 THEN s
    ELSE IF n = 1 THEN BootstrapAscendStep(ctx, s)
    ELSE LET half == BootstrapAscend(ctx, s, n \div 2)
         IN  IF half.attempts >= 0
             THEN BootstrapAscend(ctx, half, n - (n \div 2))
             ELSE half

\* window.findAPI(win), defined by the script that loadSCO adds.
bootstrapFindAPI(ctx, win) ==
    LET r == BootstrapAscend(ctx, [win |-> win, attempts |-> 0,
                                   broke |-> FALSE], Len(ctx))
    IN  [api |-> FoundAPI(ctx[r.win]), attempts |-> r.attempts]

(***************************************************************************)
(* The chains of windows findAPI is applied to: window k has window k + 1  *)
(* as its parent, the last window is top-level (its parent is itself) or   *)
(* has a parent of null; at most two windows of the chain have API         *)
(* objects.  The lengths are those around the limit of attempts.           *)
(***************************************************************************)
ChainLengths == {1, 2, 3, MAX_ATTEMPTS, MAX_ATTEMPTS + 1, MAX_ATTEMPTS + 2}

\* The API objects bound on a window: none, one of the two, or both.
BoundKinds == {"API", "API_1484_11", "both"}

Window(k, kind, parent) ==
    [API |-> IF kind \in {"API", "both"} THEN APIObject("API", k) ELSE NULL,
     API_1484_11 |-> IF kind \in {"API_1484_11", "both"}
                     THEN APIObject("API_1484_11", k) ELSE NULL,
     parent |-> parent]

\* The windows of a chain that may have API objects.
BoundPositions(len) == {1, 2, len - 1, len} \cap (1..len)

\* bound: the kinds of the windows that have API objects, by position.
Chain(len, topParent, bound) ==
    [k \in 1..len |->
        Window(k, IF k \in DOMAIN bound THEN bound[k] ELSE "none",
               IF k < len THEN k + 1 ELSE topParent)]

Chains ==
    UNION { UNION {
        {Chain(len, topParent, <<>>)}
        \cup {Chain(len, topParent, p :> kind) :
                 p \in BoundPositions(len), kind \in BoundKinds}
        \cup {Chain(len, topParent,
                     (pq[1] :> "API_1484_11") @@ (pq[2] :> kind)) :
                 pq \in {x \in BoundPositions(len) \X BoundPositions(len) :
                            x[1] < x[2]},
                 kind \in BoundKinds}
        : topParent \in {0, len} } : len \in ChainLengths }

DiscoveryInit ==
    /\ StoreAtRest
    /\ ManifestAtRest
    /\ PackagesAtRest
    /\ contexts \in Chains
    /\ player = NoLoad

\* The content calls the findAPI that injectSCORMAPI defined on its window.
FindAPI ==
    /\ player.op = "none"
    /\ player' = [player EXCEPT !.op = "findAPI",
                                !.found = findAPI(contexts, 1)]
    /\ UNCHANGED <<storeVars, manifestVars, packageVars, contexts>>

\* The content calls the findAPI of the script that loadSCO added.
BootstrapFindAPI ==
    /\ player.op = "none"
    /\ player' = [player EXCEPT !.op = "bootstrapFindAPI",
                                !.found = bootstrapFindAPI(contexts, 1)]
    /\ UNCHANGED <<storeVars, manifestVars, packageVars, contexts>>

DiscoveryNext == FindAPI \/ BootstrapFindAPI

DiscoverySpec == DiscoveryInit /\ [][DiscoveryNext]_vars

(***************************************************************************)
(* SCORMPlayer: the API objects of createSCORMAPI and createDebugAPI, as   *)
(* the content calls them.  A call of a method is an operator from the     *)
(* object, the method's name, the store and the arguments to the store it  *)
(* leaves, the string returned, the store methods invoked and whether the  *)
(* call threw.                                                             *)
(***************************************************************************)
\* The methods of createSCORMAPI(dataStore).API.
LegacyMethods ==
    {"LMSInitialize", "LMSFinish", "LMSGetValue", "LMSSetValue", "LMSCommit",
     "LMSGetLastError", "LMSGetErrorString", "LMSGetDiagnostic"}

\* The methods of createSCORMAPI(dataStore).API_1484_11.
CurrentMethods ==
    {"Initialize", "Terminate", "GetValue", "SetValue", "Commit",
     "GetLastError", "GetErrorString", "GetDiagnostic"}

\* createDebugAPI(originalAPI): an object of the eight LMS* methods, each
\* calling the method of the same name of originalAPI.
createDebugAPI(originalAPI) ==
    [object |-> "debug", of |-> originalAPI, owner |-> 1]

\* The names an API object has methods under.
MethodsOf(api) ==
    IF api.object = "API_1484_11" THEN CurrentMethods ELSE LegacyMethods

\* api.name is not a function: the call throws a TypeError.
Thrown(st) == [st |-> st, ret |-> <<>>, calls |-> <<>>, threw |-> TRUE]

Completed(r) ==
    [st |-> r.st, ret |-> r.ret, calls |-> r.calls, threw |-> FALSE]

\* API[name](a, b)
LegacyCall(name, st, a, b) ==
    CASE name = "LMSInitialize"     -> LMSInitialize(st)
      [] name = "LMSFinish"         -> LMSFinish(st)
      [] name = "LMSGetValue"       -> LMSGetValue(st, a)
      [] name = "LMSSetValue"       -> LMSSetValue(st, a, b)
      [] name = "LMSCommit"         -> LMSCommit(st)
      [] name = "LMSGetLastError"   -> LMSGetLastError(st)
      [] name = "LMSGetErrorString" -> LMSGetErrorString(st, b)
      [] name = "LMSGetDiagnostic"  -> LMSGetDiagnostic(st, b)

\* API_1484_11[name](a, b)
CurrentCall(name, st, a, b) ==
    CASE name = "Initialize"     -> Initialize(st)
      [] name = "Terminate"      -> Terminate(st)
      [] name = "GetValue"       -> GetValue(st, a)
      [] name = "SetValue"       -> SetValue(st, a, b)
      [] name = "Commit"         -> Commit(st)
      [] name = "GetLastError"   -> GetLastError(st)
      [] name = "GetErrorString" -> GetErrorString(st, b)
      [] name = "GetDiagnostic"  -> GetDiagnostic(st, b)

\* api[name](a, b) on the player's store st.  A method of a debug object
\* throws when originalAPI is undefined or has no method of its name.
RECURSIVE CallMethod(_, _, _, _, _)
CallMethod(api, name, st, a, b) ==
    IF name \notin MethodsOf(api) THEN Thrown(st)
    ELSE IF api.object = "API" THEN Completed(LegacyCall(name, st, a, b))
    ELSE IF api.object = "API_1484_11"
    THEN Completed(CurrentCall(name, st, a, b))
    ELSE IF api.of = NULL THEN Thrown(st)
    ELSE CallMethod(api.of, name, st, a, b)

\* Index in contexts of the iframe's content window and of the player's.
ContentWindow == 1
PlayerWindow  == 2

\* The window of a document that has just been created in the iframe.
NewDocumentWindow == Window(ContentWindow, "none", PlayerWindow)

\* injectSCORMAPI(iframeWindow): the windows after it.
injectSCORMAPI(ctx) ==
    [ctx EXCEPT ![ContentWindow] =
        [API |-> createDebugAPI(ctx[PlayerWindow].API),
         API_1484_11 |-> createDebugAPI(ctx[PlayerWindow].API_1484_11),
         parent |-> PlayerWindow]]

\* The load listener of the script that loadSCO adds to the content:
\* window.API = window.findAPI(window); window.API_1484_11 = window.API.
bootstrapListener(ctx) ==
    LET api == bootstrapFindAPI(ctx, ContentWindow).api
    IN  [ctx EXCEPT ![ContentWindow].API = api,
                    ![ContentWindow].API_1484_11 = api]

(***************************************************************************)
(* loadSCO.                                                                *)
(***************************************************************************)
\* The characters to one string.
RECURSIVE Join(_)
Join(chars) == IF chars = <<>> THEN "" ELSE Head(chars) \o Join(Tail(chars))

\* s.replace(/^\/+/, '')
StripLeadingSlashes(s) ==
    LET n == FirstIndex({k \in 1..Len(s) : s[k] # "/"}, 1, Len(s))
    IN  SubSeq(s, n, Len(s))

\* s.toLowerCase()
LowerCased(s) == [k \in 1..Len(s) |-> ToLower(s[k])]

\* s.replace(pat, rep) with a string pattern: the first occurrence.
ReplaceFirst(s, pat, rep) ==
    LET i == FirstIndex({k \in 1..(Len(s) - Len(pat) + 1) :
                            SubSeq(s, k, k + Len(pat) - 1) = pat},
                        1, Len(s))
    IN  IF i > Len(s) THEN s
        ELSE SubSeq(s, 1, i - 1) \o rep \o SubSeq(s, i + Len(pat), Len(s))

DOT_HTML == <<".", "h", "t", "m", "l">>
DOT_HTM  == <<".", "h", "t", "m">>

\* possiblePaths of loadSCO, for the href of the given spelling.
possiblePaths(href) ==
    << Join(href),
       Join(StripLeadingSlashes(href)),
       Join(<<"/">> \o href),
       Join(LowerCased(href)),
       Join(ReplaceFirst(href, DOT_HTML, DOT_HTM)),
       Join(ReplaceFirst(href, DOT_HTM, DOT_HTML)) >>

\* The for loop over possiblePaths from the k-th path on: the paths
\* getPackageFile was called with and the contentBlob the loop ends with.
RECURSIVE TryPaths(_, _, _, _)
TryPaths(db, packageId, paths, k) ==
    IF k > Len(paths) THEN [requested |-> <<>>, contentBlob |-> NULL]
    ELSE LET contentBlob == FileBlob(db, packageId, paths[k])
         IN  IF contentBlob # NULL
             THEN [requested |-> <<paths[k]>>, contentBlob |-> contentBlob]
             ELSE LET rest == TryPaths(db, packageId, paths, k + 1)
                  IN  [requested |-> <<paths[k]>> \o rest.requested,
                       contentBlob |-> rest.contentBlob]

\* createDemoContent(item), as far as loading is concerned.
DemoContent == [demo |-> TRUE]

\* The three calls loadSCO makes on dataStoreRef.current: the store after.
StartSession(st, item) ==
    LET s1 == initialize(st).st
        s2 == setValue(s1, "cmi.core.lesson_location",
                       Spelling[item.identifier]).st
    IN  setValue(s2, "cmi.core.lesson_status",
                 <<"i","n","c","o","m","p","l","e","t","e">>).st

\* createDemoManifest()
DemoManifest ==
    [identifier |-> "demo_course",
     organizations |-> <<
        [identifier |-> "demo_org", title |-> "Demo Course",
         items |-> << Item("lesson1", Href("lesson1.html"), TRUE, <<>>),
                      Item("lesson2", Href("lesson2.html"), TRUE, <<>>),
                      Item("quiz1", Href("quiz.html"), TRUE, <<>>) >>] >>,
     resources |-> << Resource("lesson1", "lesson1.html"),
                      Resource("lesson2", "lesson2.html"),
                      Resource("quiz1", "quiz.html") >>]

\* The player as mounted, after loadManifest: the store new, both API
\* objects on the player's window, the iframe empty; with a packageId the
\* package is in the database and the manifest is the stored one, without
\* it the manifest is the demo manifest.
PlayerInit ==
    /\ StoreAtRest
    /\ \E storage \in {s \in InitialStorages : s.localStorage = <<>>} :
          LET found == storage.idb.packages
              m == IF found = {} THEN DemoManifest
                   ELSE StoredPackage(CHOOSE p \in found : TRUE).manifest
              r == resolveItemResources(m)
          IN  /\ idb = storage.idb
              /\ work = storage.idb
              /\ passed = storage.passed
              /\ history = [deleted |-> {}, fellBack |-> storage.fellBack]
              /\ manifest = r.manifest
              /\ resolvedManifest = r.result
              /\ playableItems = getPlayableItems(r.result)
              /\ mlast = [op |-> "loadManifest", arg |-> m]
              /\ player = [NoLoad EXCEPT
                              !.packageId =
                                  IF found = {} THEN ""
                                  ELSE (CHOOSE p \in found : TRUE).id]
    /\ localStorage = <<>>
    /\ queue = <<>>
    /\ tasks = [t \in Tasks |-> Idle]
    /\ plast = NoCall
    /\ clock = 1
    /\ nops = 0
    /\ contexts = << NewDocumentWindow,
                     Window(PlayerWindow, "both", PlayerWindow) >>

\* navigateToItem(index) and the loadSCO(index) it calls.  Without a hit
\* among the paths loadSCO throws and its catch block reports the error.
LoadSCO ==
    \E itemIndex \in 1..Len(playableItems) :
        LET item == playableItems[itemIndex]
            tried == IF player.packageId = ""
                     THEN [requested |-> <<>>, contentBlob |-> DemoContent]
                     ELSE TryPaths(idb, player.packageId,
                                   possiblePaths(Spelling[item.href[1]]), 1)
            loaded == tried.contentBlob # NULL
            st == IF loaded THEN StartSession(Store, item) ELSE Store
        IN  /\ player.loads < MaxLoads
            /\ data' = st.data
            /\ initialized' = st.initialized
            /\ errorCode' = st.errorCode
            /\ player' = [player EXCEPT
                  !.op = "loadSCO", !.item = itemIndex, !.loaded = loaded,
                  !.requested = tried.requested,
                  !.content = tried.contentBlob,
                  !.loads = @ + 1,
                  !.previous = IF loaded THEN player.currentItemIndex ELSE @,
                  !.currentItemIndex = IF loaded THEN itemIndex ELSE @,
                  !.onload = IF loaded THEN TRUE ELSE @]
            /\ contexts' = IF loaded
                           THEN [contexts EXCEPT
                                    ![ContentWindow] = NewDocumentWindow]
                           ELSE contexts
            /\ UNCHANGED <<last, everTerminated, ncalls, manifestVars,
                           packageVars>>

\* The document in the iframe has loaded: the load listener of the script
\* loadSCO added runs, if the content is a file of a package, and
\* iframe.onload calls injectSCORMAPI, in either order.
IframeLoaded ==
    \E listenerFirst \in BOOLEAN :
        LET listen(ctx) == IF player.packageId # ""
                           THEN bootstrapListener(ctx) ELSE ctx
        IN  /\ player.onload
            /\ contexts' = IF listenerFirst
                           THEN injectSCORMAPI(listen(contexts))
                           ELSE listen(injectSCORMAPI(contexts))
            /\ player' = [player EXCEPT !.op = "onload", !.onload = FALSE]
            /\ UNCHANGED <<storeVars, manifestVars, packageVars>>

\* The arguments of the calls of the content.
ContentArguments ==
    { <<"cmi.suspend_data", PlainText>>,
      <<"cmi.core.score.raw", <<"8","5">> >> }

\* The content calls a method of an API object of its window.
ContentCall ==
    \E property \in {"API", "API_1484_11"},
       name \in LegacyMethods \cup CurrentMethods,
       in \in ContentArguments :
        LET api == contexts[ContentWindow][property]
            r == CallMethod(api, name, Store, in[1], in[2])
        IN  /\ ncalls < MaxCalls
            /\ player.currentItemIndex # 0
            /\ api # NULL
            /\ data' = r.st.data
            /\ initialized' = r.st.initialized
            /\ errorCode' = r.st.errorCode
            /\ everTerminated' =
                  (everTerminated \/
                      (Includes(r.calls, "terminate") /\ r.ret = BoolStr(TRUE)))
            /\ ncalls' = ncalls + 1
            /\ player' = [player EXCEPT
                  !.op = "call",
                  !.call = [name |-> name, threw |-> r.threw, ret |-> r.ret]]
            /\ UNCHANGED <<last, manifestVars, packageVars, contexts>>

PlayerNext == LoadSCO \/ IframeLoaded \/ ContentCall

PlayerSpec == PlayerInit /\ [][PlayerNext]_vars

(***************************************************************************)
(* Properties.  A state's last field holds the call that produced it and   *)
(* the store the call was made on (last.pre), so a statement about what a  *)
(* call does is a predicate on the state the call leaves.                  *)
(***************************************************************************)
\* The call that produced this state was the store method op, called directly.
Did(op) == last.via = "store" /\ last.op = op

\* C1: on a store that is not Active (never initialized, or terminated),
\* getValue returns the empty string, setValue, commit and terminate return
\* failure, the last-error code becomes 112, and no stored value changes.
C1_CallsFailWhenNotActive ==
    ((Did("getValue") \/ Did("setValue") \/ Did("commit") \/ Did("terminate"))
        /\ ~last.pre.initialized)
    => /\ IF Did("getValue") THEN last.ret = <<>> ELSE last.ret = FALSE
       /\ errorCode = ERR_NOT_INITIALIZED
       /\ data = last.pre.data
       /\ ~initialized

\* C1 witness: a setValue of a value that would be accepted, made after the
\* store was terminated.
C1_Witness ==
    /\ Did("setValue")
    /\ everTerminated
    /\ ~last.pre.initialized
    /\ last.element = "cmi.suspend_data"
    /\ last.value = PlainText

\* C2: once terminate() has succeeded on an instance, the instance is never
\* Active again.  (The code keeps one boolean, so initialize() succeeds again
\* after terminate(): the statement is violated.)
C2_TerminatedIsTerminal == everTerminated => ~initialized

\* C3: initialize() on a store that is already Active returns failure, sets
\* the last-error code to 101, leaves the store Active and leaves every
\* stored value unchanged.
C3_SecondInitializeFails ==
    (Did("initialize") /\ last.pre.initialized)
    => /\ last.ret = FALSE
       /\ errorCode = ERR_ALREADY_INITIALIZED
       /\ initialized
       /\ data = last.pre.data

\* C3 witness: a second initialize() on a store that holds a written value.
C3_Witness ==
    /\ Did("initialize")
    /\ last.pre.initialized
    /\ last.pre.data["cmi.suspend_data"] = PlainText

\* C4 as claimed: setValue on a read-only element fails with 403 whatever the
\* lifecycle state.  (On a store that is not Active the code answers 112
\* before it looks at the element: the statement is violated.)
C4_ReadOnlyIs403InEveryState ==
    (Did("setValue") /\ last.element \in readOnlyElements)
    => /\ last.ret = FALSE
       /\ errorCode = ERR_READ_ONLY

\* C4 as amended: setValue on a read-only element always returns failure and
\* changes no stored value; on an Active store the last-error code becomes
\* 403 whatever it was before, and on a store that is not Active it becomes
\* 112.
C4_ReadOnlyIs403WhenActive ==
    (Did("setValue") /\ last.element \in readOnlyElements)
    => /\ last.ret = FALSE
       /\ data = last.pre.data
       /\ initialized = last.pre.initialized
       /\ errorCode = IF last.pre.initialized THEN ERR_READ_ONLY
                      ELSE ERR_NOT_INITIALIZED

\* C4 witness: a write to a read-only element on an Active store whose last
\* error was not 0.
C4_Witness ==
    /\ Did("setValue")
    /\ last.element \in readOnlyElements
    /\ last.pre.initialized
    /\ last.pre.errorCode # ERR_NO_ERROR
    /\ errorCode = ERR_READ_ONLY

\* C5: a setValue on an Active store of a writable element with a value that
\* fails the element's validation returns failure, sets the last-error code
\* to 405 and leaves the value of that element and of every other element
\* as it was.
C5_InvalidValueIsRejected ==
    (/\ Did("setValue")
     /\ last.pre.initialized
     /\ last.element \notin readOnlyElements
     /\ ~validateSCORMElement(last.element, last.value))
    => /\ last.ret = FALSE
       /\ errorCode = ERR_INVALID_DATA
       /\ data = last.pre.data
       /\ initialized

\* C5 witness: a lesson status outside the vocabulary, written over a status
\* that an earlier call had stored.
C5_Witness ==
    /\ Did("setValue")
    /\ last.pre.initialized
    /\ last.element = "cmi.core.lesson_status"
    /\ ~Includes(LESSON_STATUS_VOCABULARY, last.value)
    /\ last.pre.data["cmi.core.lesson_status"] = <<"p","a","s","s","e","d">>

\* C6: when setValue(element, raw) was accepted, a getValue(element) made
\* immediately after it returns the sanitized form of raw, with last-error 0
\* after both calls; for the script block "<script>x</script>ok" that is
\* "ok", and whenever sanitizing changes raw the value read is not raw.
C6_GetReturnsSanitized ==
    (/\ last.calls = <<"getValue">>
     /\ Len(last.prevSet) = 2
     /\ last.prevSet[1] = last.element)
    => /\ last.ret = Sanitized[last.prevSet[2]]
       /\ last.pre.errorCode = ERR_NO_ERROR
       /\ errorCode = ERR_NO_ERROR
       /\ (last.prevSet[2] = ScriptText => last.ret = <<"o","k">>)
       /\ (last.prevSet[2] = HandlerText => last.ret = <<"g","o">>)
       /\ (last.prevSet[2] = JavascriptText => last.ret = <<"g","o">>)

\* C6 witness: the script-bearing value is written and read back.
C6_Witness ==
    /\ Did("getValue")
    /\ last.prevSet = <<"cmi.suspend_data", ScriptText>>
    /\ last.element = "cmi.suspend_data"
    /\ last.ret # ScriptText

\* Whether s holds a match of one of the three patterns sanitizeValue removes.
IsScriptBearing(s) ==
    \E i \in 1..Len(s) :
        ScriptBlockEnd(s, i) > 0 \/ JavascriptEnd(s, i) > 0 \/ HandlerEnd(s, i) > 0

\* C7: after an accepted setValue the value stored for the element holds no
\* script block, no javascript: prefix and no on<word>= handler pattern.
\* (Each pattern is removed in one pass, so a removal can leave a new match
\* behind: the statement is violated.)
C7_StoredValueIsNotScriptBearing ==
    LastWasAcceptedSet => ~IsScriptBearing(data[last.element])

Delegated(op, pre, element, value) ==
    CASE op \in {"LMSInitialize", "Initialize"} ->
            [st |-> initialize(pre).st, ret |-> BoolStr(initialize(pre).ret),
             calls |-> <<"initialize">>]
      [] op \in {"LMSFinish", "Terminate"} ->
            [st |-> terminate(commit(pre).st).st,
             ret |-> BoolStr(terminate(commit(pre).st).ret),
             calls |-> <<"commit", "terminate">>]
      [] op \in {"LMSGetValue", "GetValue"} ->
            [st |-> getValue(pre, element).st,
             ret |-> getValue(pre, element).ret, calls |-> <<"getValue">>]
      [] op \in {"LMSSetValue", "SetValue"} ->
            [st |-> setValue(pre, element, value).st,
             ret |-> BoolStr(setValue(pre, element, value).ret),
             calls |-> <<"setValue">>]
      [] op \in {"LMSCommit", "Commit"} ->
            [st |-> commit(pre).st, ret |-> BoolStr(commit(pre).ret),
             calls |-> <<"commit">>]
      [] op \in {"LMSGetLastError", "GetLastError"} ->
            [st |-> pre, ret |-> pre.errorCode, calls |-> <<"getLastError">>]
      [] op \in {"LMSGetErrorString", "GetErrorString"} ->
            [st |-> pre, ret |-> getErrorString(pre, value).ret,
             calls |-> <<"getErrorString">>]
      [] op \in {"LMSGetDiagnostic", "GetDiagnostic"} ->
            [st |-> pre, ret |-> <<>>, calls |-> <<>>]

\* C9: a call through either call set returns what the delegated store
\* methods, called directly on the same store in the same order, return
\* ("true" exactly when the method succeeds) and leaves the store they leave;
\* Terminate and LMSFinish run commit() then terminate() and return
\* terminate's result; GetDiagnostic returns "" and leaves the store alone.
C9_CallSetsDelegateToOneStore ==
    (last.via \in {"API", "API_1484_11"})
    => LET d == Delegated(last.op, last.pre, last.element, last.value)
       IN  /\ Store = d.st
           /\ last.ret = d.ret
           /\ last.calls = d.calls

\* C9 witness: Terminate through API_1484_11 succeeds on a store that holds a
\* value written before it.
C9_Witness ==
    /\ last.via = "API_1484_11"
    /\ last.op = "Terminate"
    /\ last.ret = BoolStr(TRUE)
    /\ last.pre.data["cmi.suspend_data"] = PlainText
    /\ ~initialized

\* C10: commit() on an Active store returns success, sets the last-error
\* code to 0, leaves the store Active and changes no stored value.
C10_CommitSucceedsWhenActive ==
    (Did("commit") /\ last.pre.initialized)
    => /\ last.ret = TRUE
       /\ errorCode = ERR_NO_ERROR
       /\ initialized
       /\ data = last.pre.data

\* C10 witness: a commit on an Active store whose last error was 405.
C10_Witness ==
    /\ Did("commit")
    /\ last.pre.initialized
    /\ last.pre.errorCode = ERR_INVALID_DATA

\* The session-time value of the scenario: 250 hours, 61 minutes.
OutOfRangeTime == <<"2","5","0",":","6","1",":","0","0">>

\* C11 as stated: on an Active store, setValue("cmi.core.session_time",
\* "250:61:00") is rejected: it returns failure, the last-error code becomes
\* 405 and the stored session time is unchanged.  (The pattern checks the
\* digit counts only, so the value is accepted: the statement is violated.)
C11_OutOfRangeTimeIsRejected ==
    (Did("setValue") /\ last.pre.initialized
        /\ last.element = "cmi.core.session_time"
        /\ last.value = OutOfRangeTime)
    => /\ last.ret = FALSE
       /\ errorCode = ERR_INVALID_DATA
       /\ data = last.pre.data

\* C11, amended: on an Active store, setValue("cmi.core.session_time",
\* "250:61:00") is accepted: it returns success, the last-error code becomes
\* 0, the stored session time becomes "250:61:00" and no other element
\* changes.
C11_OutOfRangeTimeIsAccepted ==
    (Did("setValue") /\ last.pre.initialized
        /\ last.element = "cmi.core.session_time"
        /\ last.value = OutOfRangeTime)
    => /\ last.ret = TRUE
       /\ errorCode = ERR_NO_ERROR
       /\ data = [last.pre.data EXCEPT
                      !["cmi.core.session_time"] = OutOfRangeTime]

\* C11 witness: the value was set on an Active store whose session time was
\* still the default.
C11_Witness ==
    /\ Did("setValue")
    /\ last.pre.initialized
    /\ last.element = "cmi.core.session_time"
    /\ last.value = OutOfRangeTime
    /\ last.pre.data["cmi.core.session_time"] # OutOfRangeTime
    /\ data["cmi.core.session_time"] = OutOfRangeTime

(***************************************************************************)
(* Properties of the manifest functions.  An item of a manifest is         *)
(* addressed by its path: the index of its organization, then the index of *)
(* each ancestor among its siblings, then its own.  Pre-order is the order *)
(* of the paths in which a path precedes its extensions and an earlier     *)
(* sibling's subtree precedes a later sibling's.                           *)
(***************************************************************************)
RECURSIVE PathsOf(_)
PathsOf(items) ==
    UNION { {<<i>>} \cup {<<i>> \o p : p \in PathsOf(items[i].children)} :
            i \in 1..Len(items) }

ItemPaths(m) ==
    UNION { {<<o>> \o p : p \in PathsOf(m.organizations[o].items)} :
            o \in 1..Len(m.organizations) }

RECURSIVE ItemAt(_, _)
ItemAt(items, p) ==
    IF Len(p) = 1 THEN items[p[1]]
    ELSE ItemAt(items[p[1]].children, Tail(p))

ItemAtPath(m, p) == ItemAt(m.organizations[p[1]].items, Tail(p))

\* p comes before q in pre-order.
Precedes(p, q) ==
    LET n == IF Len(p) < Len(q) THEN Len(p) ELSE Len(q)
        differ == {i \in 1..n : p[i] # q[i]}
    IN  IF differ = {} THEN Len(p) < Len(q)
        ELSE LET i == CHOOSE i \in differ : \A j \in differ : i <= j
             IN  p[i] < q[i]

\* The paths of the items that are visible and have a non-empty href.
PlayablePaths(m) ==
    {p \in ItemPaths(m) : /\ ItemAtPath(m, p).isVisible
                          /\ ItemAtPath(m, p).href # NoHref
                          /\ ItemAtPath(m, p).href # Href("")}

\* The items at PlayablePaths(m), each once, in pre-order.
PlayList(m) ==
    [k \in 1..Cardinality(PlayablePaths(m)) |->
        ItemAtPath(m, CHOOSE p \in PlayablePaths(m) :
                          Cardinality({q \in PlayablePaths(m) :
                                          Precedes(q, p)}) = k - 1)]

Identifiers(items) == [k \in 1..Len(items) |-> items[k].identifier]

\* C12: getPlayableItems returns exactly the pre-order traversal of the
\* organizations in manifest order, filtered to the items that are visible
\* and have a non-empty href: a hidden or href-less item is left out and its
\* descendants are still visited; [A, B[C, D], E] with B hidden gives
\* [A, C, D, E], and a visible C1 plus a hidden C2 gives [C1].
C12_PlayListIsFilteredPreOrder ==
    mlast.op = "loadManifest"
    => /\ playableItems = PlayList(resolvedManifest)
       /\ mlast.arg = OrderManifest
            => Identifiers(playableItems) = <<"A", "C", "D", "E">>
       /\ mlast.arg = TwoItemManifest
            => Identifiers(playableItems) = <<"C1">>

\* C12 witness: the play-list of [A, B[C, D], E] with B hidden has been
\* computed and is [A, C, D, E].
C12_Witness ==
    /\ mlast.op = "loadManifest"
    /\ mlast.arg = OrderManifest
    /\ Identifiers(playableItems) = <<"A", "C", "D", "E">>

\* The resource of the manifest whose identifier is the reference href.
HasResource(m, href) ==
    \E i \in 1..Len(m.resources) : m.resources[i].identifier = href[1]

ResourceOf(m, href) ==
    m.resources[CHOOSE i \in 1..Len(m.resources) :
                    m.resources[i].identifier = href[1]]

\* C13 as stated: every item at every depth gets the entry href of the
\* resource whose identifier equals the item's original reference when such
\* a resource exists, and keeps its original reference (absent included)
\* otherwise.  (An item whose reference is the empty string is not looked
\* up, so it keeps "" even when a resource has the identifier "": the
\* statement is violated.)
C13_ReferenceIsResolvedWhenKnown ==
    mlast.op = "loadManifest"
    => /\ ItemPaths(resolvedManifest) = ItemPaths(mlast.arg)
       /\ \A p \in ItemPaths(mlast.arg) :
            LET original == ItemAtPath(mlast.arg, p).href
            IN  ItemAtPath(resolvedManifest, p).href =
                    IF original # NoHref /\ HasResource(mlast.arg, original)
                    THEN Href(ResourceOf(mlast.arg, original).href)
                    ELSE original

\* C13, amended: every item at every depth gets the entry href of the
\* resource whose identifier equals the item's original reference when the
\* reference is a non-empty string and such a resource exists, and keeps
\* its original reference (absent or empty included) otherwise.
C13_NonEmptyReferenceIsResolvedWhenKnown ==
    mlast.op = "loadManifest"
    => /\ ItemPaths(resolvedManifest) = ItemPaths(mlast.arg)
       /\ \A p \in ItemPaths(mlast.arg) :
            LET original == ItemAtPath(mlast.arg, p).href
            IN  ItemAtPath(resolvedManifest, p).href =
                    IF /\ original # NoHref
                       /\ original # Href("")
                       /\ HasResource(mlast.arg, original)
                    THEN Href(ResourceOf(mlast.arg, original).href)
                    ELSE original

\* C13 witness: below the top level, one item's reference was resolved to
\* its resource's href and another item's unknown reference was kept.
C13_Witness ==
    /\ mlast.op = "loadManifest"
    /\ \E p, q \in ItemPaths(mlast.arg) :
          /\ Len(p) >= 3
          /\ ItemAtPath(mlast.arg, p).href = Href("RES1")
          /\ ItemAtPath(resolvedManifest, p).href = Href("a.html")
          /\ ItemAtPath(mlast.arg, q).href = Href("x.html")
          /\ ItemAtPath(resolvedManifest, q).href = Href("x.html")

\* The manifest with every item's href field removed.
RECURSIVE ItemsWithoutHref(_)
ItemsWithoutHref(items) ==
    [i \in 1..Len(items) |->
        [identifier |-> items[i].identifier,
         title |-> items[i].title,
         isVisible |-> items[i].isVisible,
         children |-> ItemsWithoutHref(items[i].children)]]

WithoutHrefs(m) ==
    [m EXCEPT !.organizations =
        [o \in 1..Len(m.organizations) |->
            [m.organizations[o] EXCEPT
                !.items = ItemsWithoutHref(m.organizations[o].items)]]]

\* C14: resolveItemResources leaves its input manifest as it was, and its
\* result has the shape of the input: the same organizations, items in the
\* same order and parent/child structure, identifiers, titles, visibility
\* and resources, differing at most in the items' href fields.
C14_ResolveKeepsInputAndShape ==
    mlast.op = "loadManifest"
    => /\ manifest = mlast.arg
       /\ WithoutHrefs(resolvedManifest) = WithoutHrefs(mlast.arg)

\* C14 witness: a manifest with an item below the top level was resolved,
\* some href changed, and the input is as it was.
C14_Witness ==
    /\ mlast.op = "loadManifest"
    /\ resolvedManifest # mlast.arg
    /\ manifest = mlast.arg
    /\ \E p \in ItemPaths(mlast.arg) : Len(p) >= 3

(***************************************************************************)
(* Properties of the package manager.  plast holds the call that returned  *)
(* last, so a statement about what a call does is a predicate on the state *)
(* its return leaves.                                                      *)
(***************************************************************************)
\* The file's name does not end in .zip (whatever the case), or the file is
\* larger than 100 MiB.
NameOrSizeFails(file) ==
    \/ Len(file.name) < 4
    \/ \E k \in 1..4 :
          ToLower(file.name[Len(file.name) - 4 + k])
              # <<".", "z", "i", "p">>[k]
    \/ file.size > 100 * 1024 * 1024

\* The archive has no manifest entry, or its manifest is not XML, has no
\* manifest element or has no organization.
ManifestFails(file) ==
    LET entries == file.archive.entries
        manifests == {i \in 1..Len(entries) :
                         entries[i].path = "imsmanifest.xml"}
    IN  \/ manifests = {}
        \/ \E i \in manifests :
              \/ ~entries[i].content.wellFormed
              \/ ~entries[i].content.hasManifest
              \/ entries[i].content.manifest.organizations = <<>>

\* C15: when uploadPackage fails an ingest check (name not ending in .zip,
\* size above 100 MiB, manifest entry missing, manifest unparseable, zero
\* organizations) it raises to the caller having written nothing to the
\* primary or the degraded tier, and on a name or size failure it raises
\* without having read the archive or extracted any entry.
C15_IngestFailureRaisesBeforeAnyWrite ==
    plast.op = "uploadPackage"
    => /\ (NameOrSizeFails(plast.file) \/ ManifestFails(plast.file))
            => (plast.raised /\ plast.writes = 0 /\ plast.pkg = NULL)
       /\ NameOrSizeFails(plast.file)
            <=> (~plast.archiveRead /\ plast.extracted = 0)

\* C15 witness: an upload of a file above the size limit was refused while
\* other uploads could have written.
C15_Witness ==
    /\ plast.op = "uploadPackage"
    /\ plast.raised
    /\ plast.file.size > MAX_PACKAGE_SIZE
    /\ ~plast.archiveRead

\* The paths of the file map of the package given to storePackage under id.
FilePathsOf(id) ==
    UNION { {p.files[i].path : i \in 1..Len(p.files)} :
            p \in {q \in passed : q.id = id} }

\* C16: in the committed content of the primary tier, which is what every
\* reader sees, each package is whole or absent: either its metadata
\* record and a row for every path of its file map are present, or no
\* record and no row of its id is; also after a file-row write failed
\* partway through storePackage.
C16_PackageIsWholeOrAbsent ==
    \A id \in {p.id : p \in passed} :
        LET records == {p \in idb.packages : p.id = id}
            rows == {r \in idb.files : r.packageId = id}
        IN  \/ /\ records # {}
               /\ \A path \in FilePathsOf(id) :
                      \E r \in rows : r.path = path
            \/ /\ records = {}
               /\ rows = {}

\* C16 witness: storePackage failed at a file row after the metadata and an
\* earlier file row had been written, and the primary tier holds nothing of
\* the package.
C16_Witness ==
    /\ plast.op \in {"storePackage", "uploadPackage"}
    /\ plast.failedAt = "putFile"
    /\ plast.writes >= 3
    /\ \A p \in idb.packages : p.id # plast.id
    /\ \A r \in idb.files : r.packageId # plast.id

C18_ReadByIdChecksTheCatalog ==
    (plast.op = "getPackageById"
        /\ \E i \in 1..Len(localStorage) : localStorage[i].id = plast.id)
    => /\ plast.ret # NULL
       /\ plast.ret.id = plast.id

\* C19: getPackageFile(id, path) returns the payload of the row stored for
\* (id, path) when the primary tier holds one, and null, without raising,
\* when it holds none.  (The lookup gives the array [id, path] to the index
\* on packageId alone, so it finds no row: the statement is violated.)
C19_FileReadReturnsStoredPayload ==
    plast.op = "getPackageFile"
    => /\ ~plast.raised
       /\ LET rows == {r \in idb.files : /\ r.packageId = plast.id
                                         /\ r.path = plast.path}
          IN  IF rows = {} THEN plast.ret = NULL
              ELSE plast.opened => \A r \in rows : plast.ret = r.blob

\* C20: once deletePackage(id) has returned with the primary tier
\* available, the primary tier holds no file row whose package id is id.
\* (The rows are deleted by a callback the call does not wait for, so they
\* are there when the call returns: the statement is violated.)
C20_DeleteHasRemovedRowsOnReturn ==
    (plast.op = "deletePackage" /\ plast.opened /\ plast.failedAt = "none")
    => plast.rowsLeft = {}

\* C26: in every reachable state of a store instance every read-only
\* element (student id, student name, credit, entry, lesson mode, total
\* time, launch data, comments from the host) holds the value the
\* constructor gave it, whatever calls were made through the store or
\* either call set.
C26_ReadOnlyElementsKeepConstructionValue ==
    \E userId \in UserIds :
        \A element \in readOnlyElements :
            data[element] = NewStore(userId).data[element]

\* C26 witness: a call set was asked to write a read-only element of an
\* Active store constructed for a given user id, and the element holds the
\* constructor's value.
C26_Witness ==
    /\ last.op \in {"LMSSetValue", "SetValue"}
    /\ last.element \in readOnlyElements
    /\ last.pre.initialized
    /\ initialized
    /\ data["cmi.core.student_id"] = <<"d","e","m","o","_","u","s","e","r">>
    /\ data[last.element] # last.value

\* C29 as stated: resolving a resolved manifest again gives the same
\* manifest and the same play-list, for every manifest.  (A resource whose
\* href is the identifier of another resource is resolved one step further
\* by the second pass: the statement is violated.)
C29_ResolveIsIdempotent ==
    mlast.op = "loadManifest"
    => /\ resolveItemResources(resolvedManifest).result = resolvedManifest
       /\ getPlayableItems(resolveItemResources(resolvedManifest).result)
              = playableItems

\* No resource's href is the identifier of a resource with another href.
HrefsAreNoReferences(m) ==
    \A i, j \in 1..Len(m.resources) :
        (m.resources[i].href # "" /\
            m.resources[i].href = m.resources[j].identifier)
        => ResourceMap(m.resources)[m.resources[j].identifier].href
               = m.resources[i].href

\* C29: for every manifest in which no resource's href is the identifier
\* of a resource with another href, resolving the resolved manifest again
\* gives the same manifest and the same play-list.
C29_ResolveIsIdempotentOnPlainHrefs ==
    (mlast.op = "loadManifest" /\ HrefsAreNoReferences(mlast.arg))
    => /\ resolveItemResources(resolvedManifest).result = resolvedManifest
       /\ getPlayableItems(resolveItemResources(resolvedManifest).result)
              = playableItems

\* C29 witness: a manifest whose hrefs are no references was loaded and the
\* first pass replaced a reference by a href.
C29_Witness ==
    /\ mlast.op = "loadManifest"
    /\ HrefsAreNoReferences(mlast.arg)
    /\ mlast.arg.resources # <<>>
    /\ \E p \in ItemPaths(mlast.arg) :
          /\ ItemAtPath(mlast.arg, p).href # ItemAtPath(resolvedManifest, p).href
          /\ ItemAtPath(resolvedManifest, p).href # Href("")
    /\ playableItems # <<>>

\* The entries of an archive that are no directories.
FileEntries(archive) ==
    {i \in 1..Len(archive.entries) : ~archive.entries[i].dir}

\* The file map holds one payload for every entry of the archive that is
\* no directory, and nothing else.
HoldsEveryEntry(files, archive) ==
    /\ Len(files) = Cardinality(FileEntries(archive))
    /\ \A i \in FileEntries(archive) :
          \E k \in 1..Len(files) :
              /\ files[k].path = archive.entries[i].path
              /\ files[k].blob = archive.entries[i].content

\* C24: whatever the order in which the extractions of the entries
\* complete, when uploadPackage calls storePackage the file map of the
\* package holds one payload for every entry of the archive that is no
\* directory.
C24_StoreStartsAfterEveryExtraction ==
    \A t \in Tasks :
        (tasks[t].op = "uploadPackage" /\ tasks[t].pkg # NULL)
        => /\ tasks[t].pending = {}
           /\ HoldsEveryEntry(tasks[t].pkg.files, tasks[t].file.archive)

\* C24 witness: storePackage was called for an upload whose extractions
\* completed in another order than the entries have in the archive.
C24_Witness ==
    \E t \in Tasks :
        /\ tasks[t].op = "uploadPackage"
        /\ tasks[t].pkg # NULL
        /\ Len(tasks[t].pkg.files) = 2
        /\ tasks[t].pkg.files[1].path = "a.html"
        /\ tasks[t].pkg.files[2].path = "imsmanifest.xml"

\* C23: neither the packages store of the primary tier nor the degraded
\* catalog holds two records of the same package id, whatever storePackage
\* calls were made.  (The catch block of storePackage pushes the record
\* without looking for one of the same id: the statement is violated.)
C23_PackageIdsAreUnique ==
    /\ \A p, q \in idb.packages : p.id = q.id => p = q
    /\ \A i, j \in 1..Len(localStorage) :
          localStorage[i].id = localStorage[j].id => i = j

\* C27: once deletePackage(id) has returned, and as long as no
\* storePackage of id was in progress then or is called later, neither
\* getPackageById(id) nor getStoredPackages returns a package of that id,
\* whichever tier held it and whether or not the database opens for the
\* delete and for the read.  (deletePackage removes the package from one
\* tier only, the one its open of the database selects: the statement is
\* violated.)
C27_DeletedStaysDeleted ==
    /\ (plast.op = "getPackageById" /\ plast.id \in history.deleted)
           => plast.ret = NULL
    /\ plast.op = "getStoredPackages"
           => \A k \in 1..Len(plast.ret.packages) :
                  plast.ret.packages[k].id \notin history.deleted

\* C30: the degraded catalog holds a record for every package whose
\* storePackage fell back to it (and that no delete took out of it since),
\* in every interleaving of the calls.
C30_NoFallbackIsLost ==
    \A e \in history.fellBack :
        \E i \in 1..Len(localStorage) : localStorage[i].id = e.id

\* C30 witness: two storePackage calls of different ids were in progress
\* together, both fell back, both have returned and the catalog holds both.
C30_Witness ==
    /\ \A t \in Tasks : tasks[t].op = "idle"
    /\ plast.op \in {"storePackage", "uploadPackage"}
    /\ plast.failedAt # "none"
    /\ \E e \in history.fellBack :
          /\ e.concurrent
          /\ e.id # plast.id
          /\ \E i, j \in 1..Len(localStorage) :
                /\ localStorage[i].id = e.id
                /\ localStorage[j].id = plast.id

\* The windows findAPI can reach from the window at index start: the
\* window itself and its ancestors of at most MAX_ATTEMPTS ascents.
ReachedWindows(ctx, start) ==
    {k \in start..Len(ctx) : k - start <= MAX_ATTEMPTS}

\* C21: for every chain of windows (longer than the limit of attempts too,
\* and with a top-level window whose parent is itself or null), both
\* findAPI functions end after at most 500 ascents; they return an API
\* object of the nearest window, counted from the content's own, that has
\* one among the windows reached, and nothing when no window reached has.
C21_FindAPIReturnsNearestWithinLimit ==
    player.op \in {"findAPI", "bootstrapFindAPI"} =>
        LET reached == ReachedWindows(contexts, 1)
            having == {k \in reached : ~HasNoAPI(contexts[k])}
        IN  /\ player.found.attempts <= MAX_ATTEMPTS
            /\ having = {} => player.found.api = NULL
            /\ having # {} =>
                  LET nearest == CHOOSE k \in having : \A j \in having : k <= j
                  IN  /\ player.found.api # NULL
                      /\ player.found.api \in
                            {contexts[nearest].API,
                             contexts[nearest].API_1484_11}

\* findAPI gave up at the limit on a chain whose only API object is out of
\* reach, and found the API object of the last window in reach on another.
C21_Witness ==
    /\ player.op = "findAPI"
    /\ Len(contexts) > MAX_ATTEMPTS + 1
    /\ player.found.attempts = MAX_ATTEMPTS
    /\ player.found.api = NULL
    /\ ~HasNoAPI(contexts[Len(contexts)])

\* C22: when an item is loaded after another item was played, the store
\* the new item sees is a new instance: it holds what loadSCO's own three
\* calls leave on a store as constructed (nothing else than the item's
\* location and the status incomplete is set), whatever was written and
\* whatever lifecycle state was reached while the previous item played.
C22_NewItemSeesNewStore ==
    (player.op = "loadSCO" /\ player.loaded /\ player.previous # 0) =>
        Store = StartSession(NewStore(DEFAULT_STUDENT_ID),
                             playableItems[player.item])

\* The rows of the committed files store under a package id and a path.
StoredUnder(packageId, path) ==
    {row \in idb.files : row.packageId = packageId /\ row.path = path}

\* C25: loading an item of a stored package, the player asks for the file
\* under the path variants in their order (verbatim, leading slashes
\* stripped, a leading slash added, lowercased, .html to .htm, .htm to
\* .html) and stops at the first variant that is stored: no variant is
\* asked for after it, and the content loaded is that file's payload.
C25_FirstStoredVariantIsLoaded ==
    (player.op = "loadSCO" /\ player.packageId # "") =>
        LET variants ==
                possiblePaths(
                    Spelling[playableItems[player.item].href[1]])
            hits == {k \in 1..Len(variants) :
                        StoredUnder(player.packageId, variants[k]) # {}}
        IN  IF hits = {}
            THEN player.requested = variants /\ player.content = NULL
            ELSE LET first == CHOOSE k \in hits : \A j \in hits : k <= j
                 IN  /\ player.requested = SubSeq(variants, 1, first)
                     /\ \E row \in StoredUnder(player.packageId,
                                               variants[first]) :
                            player.content = row.blob

\* Every method of the names is a method of the API object and a call of
\* it arrives at the player's store methods without throwing.
Offers(api, names) ==
    \A name \in names :
        /\ name \in MethodsOf(api)
        /\ ~CallMethod(api, name, Store, "cmi.core.lesson_status",
                       ERR_NO_ERROR).threw

\* C28: whenever the content's window has an object under API_1484_11, set
\* by injectSCORMAPI after the iframe loaded or by the load listener of
\* the added script, that object offers Initialize, Terminate, GetValue,
\* SetValue, Commit, GetLastError, GetErrorString and GetDiagnostic and
\* each reaches the player's store; likewise the object under API offers
\* the LMS* methods.
C28_BindingsOfferTheirConvention ==
    Len(contexts) = 2 =>
        /\ contexts[ContentWindow].API_1484_11 # NULL =>
              Offers(contexts[ContentWindow].API_1484_11, CurrentMethods)
        /\ contexts[ContentWindow].API # NULL =>
              Offers(contexts[ContentWindow].API, LegacyMethods)

====
